---- MODULE Spec2Model ----
(***************************************************************************)
(* Model of the analytics core of the market research platform:            *)
(*   backend/services/sentiment_analyzer.py  (SentimentAnalyzer)           *)
(*   backend/services/trend_detector.py      (TrendDetector)               *)
(*   backend/app.py                          (search_market_insights)      *)
(*                                                                         *)
(* Under Spec one behaviour is one invocation of one engine on one corpus, *)
(* under SpecKeyword and SpecTopics one invocation of analyze_sentiment   *)
(* and of detect_trends on further corpora, under SpecBoth the two        *)
(* engines run side by side on one corpus, under SpecApp one search       *)
(* request runs them one after the other and commits.  Texts are          *)
(* sequences of words (the blank-separated tokens of the Python string);   *)
(* every text handed to analyze_sentiment is shorter than 100 characters,  *)
(* so the slices text[:100], text[:200] and text[:500] of the source keep  *)
(* all of it.                                                              *)
(* Floats are exact fractions [n, d].                                      *)
(***************************************************************************)
EXTENDS Integers, Sequences, FiniteSets, TLC

VARIABLES
    engine,       \* which engine this behaviour invokes: "sentiment" | "trend",
                  \* "both" for the two engines side by side on one corpus,
                  \* "app" for one search request of app.py
    corpus,       \* the list of documents handed to the engine
    apiKey,       \* SentimentAnalyzer.openai_api_key is set (truthy)
    query,        \* the query argument of detect_trends
    sPc,          \* position inside analyze_sentiment
    textSamples,  \* text_samples built by _ai_sentiment_analysis
    aiAttempted,  \* _ai_sentiment_analysis was entered
    aiCalls,      \* number of openai.ChatCompletion.create calls made
    kwRuns,       \* number of _keyword_based_sentiment_analysis executions
    aiReply,      \* what the classification collaborator answered
    sOut,         \* what analyze_sentiment handed to its caller
    tPc,          \* position inside detect_trends
    tIdx,         \* index of the next document of the bucketing loop
    clock,        \* the hour the wall clock shows
    timePeriods,  \* time_periods of _extract_keywords_over_time
    tOut,         \* what detect_trends handed to its caller
    appPc,        \* position inside search_market_insights ("idle": no request)
    sentimentReport,  \* the SentimentReport row of the request
    trendAnalysis,    \* the TrendAnalysis row of the request
    queryRecord,      \* the HistoricalQuery object of the request in the session
    stored            \* what the database holds committed for the request

sentVars == <<sPc, textSamples, aiAttempted, aiCalls, kwRuns, aiReply, sOut>>
trendVars == <<tPc, tIdx, clock, timePeriods, tOut>>
appVars == <<appPc, sentimentReport, trendAnalysis, queryRecord, stored>>
vars == <<engine, corpus, apiKey, query, sentVars, trendVars, appVars>>

-----------------------------------------------------------------------------
(* Bounds of the model *)

\* longest corpus enumerated below the boundary lengths
MaxLen == 2
\* longest individual_sentiments list in a collaborator response
MaxItems == 2

(* Program constants *)

\* analyze_sentiment: len(data) <= 20
AiCorpusLimit == 20
\* _ai_sentiment_analysis: data[:15]
AiSampleLimit == 15
\* len(sample_texts[sentiment]) < 3
SampleCap == 3

-----------------------------------------------------------------------------
(* Python values *)

\* a dict value that is a string, given as its words
S(words) == [k |-> "str", v |-> words]
\* a dict value that is None
None == [k |-> "none", v |-> <<>>]
\* the key is not in the dict
Absent == [k |-> "absent", v |-> <<>>]

\* a float as an exact fraction
Frac(n, d) == [n |-> n, d |-> d]

Labels == {"positive", "negative", "neutral"}

positive_keywords ==
    {"bullish", "optimistic", "growth", "opportunity", "positive", "strong",
     "excellent", "promising", "upward", "gain", "profit", "success",
     "breakthrough", "innovation", "expansion", "momentum", "rally", "surge",
     "boom", "thriving", "robust"}

negative_keywords ==
    {"bearish", "pessimistic", "decline", "risk", "negative", "weak", "poor",
     "concerning", "downward", "loss", "failure", "crash", "volatility",
     "uncertainty", "recession", "downturn", "plunge", "collapse",
     "struggling", "crisis"}

neutral_keywords ==
    {"stable", "steady", "unchanged", "flat", "sideways", "consolidation",
     "mixed", "balanced", "moderate", "cautious", "watchful"}

\* item.get(key, '') : the default '' only replaces a missing key, None stays
GetOrEmpty(field) == IF field.k = "absent" THEN S(<<>>) ELSE field

\* f"{x}" : str(None) is the text "None"
Format(field) == IF field.k = "none" THEN <<"None">> ELSE field.v

\* f"{item.get('title', '')} {item.get('content', '')}"
ItemText(item) ==
    Format(GetOrEmpty(item.title)) \o Format(GetOrEmpty(item.content))

\* str.lower() : the only word of the model with an upper-case letter is "None"
Lower(text) == [i \in DOMAIN text |-> IF text[i] = "None" THEN "none" ELSE text[i]]

\* IsBlank with a fault: no text counts as blank
IsBlankNever(text) == FALSE

\* not text.strip()
IsBlank(text) == text = <<>>

\* sum(1 for keyword in keywords if keyword in text) : the words of the model
\* contain a keyword only by being that keyword
KeywordCount(keywords, text) ==
    Cardinality({kw \in keywords : \E i \in DOMAIN text : text[i] = kw})

Min(a, b) == IF a <= b THEN a ELSE b
Max(a, b) == IF a >= b THEN a ELSE b

-----------------------------------------------------------------------------
(* What a call hands to its caller *)

Returned(r) == [kind |-> "returned", result |-> r]
Raised(e) == [kind |-> "raised", result |-> [error |-> e]]
Pending == [kind |-> "pending", result |-> [error |-> ""]]

-----------------------------------------------------------------------------
(* SentimentAnalyzer._keyword_based_sentiment_analysis *)

\* KwClassify with a fault: the comparisons are not strict, so a tie for the
\* greatest count is decided for a label
KwClassifyTieDecided(text) ==
    LET positive_count == KeywordCount(positive_keywords, text)
        negative_count == KeywordCount(negative_keywords, text)
        neutral_count == KeywordCount(neutral_keywords, text)
    IN  IF positive_count >= negative_count /\ positive_count >= neutral_count
        THEN [sentiment |-> "positive",
              confidence |-> Frac(Min(9, 5 + positive_count), 10),
              positive_keywords |-> positive_count,
              negative_keywords |-> negative_count]
        ELSE IF negative_count >= positive_count /\ negative_count >= neutral_count
        THEN [sentiment |-> "negative",
              confidence |-> Frac(Min(9, 5 + negative_count), 10),
              positive_keywords |-> positive_count,
              negative_keywords |-> negative_count]
        ELSE [sentiment |-> "neutral",
              confidence |-> Frac(6, 10),
              positive_keywords |-> positive_count,
              negative_keywords |-> negative_count]

\* the per-document classification of the loop body
KwClassify(text) ==
    LET positive_count == KeywordCount(positive_keywords, text)
        negative_count == KeywordCount(negative_keywords, text)
        neutral_count == KeywordCount(neutral_keywords, text)
    IN  IF positive_count > negative_count /\ positive_count > neutral_count
        THEN [sentiment |-> "positive",
              confidence |-> Frac(Min(9, 5 + positive_count), 10),
              positive_keywords |-> positive_count,
              negative_keywords |-> negative_count]
        ELSE IF negative_count > positive_count /\ negative_count > neutral_count
        THEN [sentiment |-> "negative",
              confidence |-> Frac(Min(9, 5 + negative_count), 10),
              positive_keywords |-> positive_count,
              negative_keywords |-> negative_count]
        ELSE [sentiment |-> "neutral",
              confidence |-> Frac(6, 10),
              positive_keywords |-> positive_count,
              negative_keywords |-> negative_count]

\* item.get('source', 'unknown')
SourceOrUnknown(item) ==
    IF item.source.k = "absent" THEN S(<<"unknown">>) ELSE item.source

\* sample_texts[sentiment].append(text) when fewer than 3 are kept
AddSample(sample_texts, sentiment, text) ==
    IF Len(sample_texts[sentiment]) < SampleCap
    THEN [sample_texts EXCEPT ![sentiment] = Append(@, text)]
    ELSE sample_texts

EmptySamples == [positive |-> <<>>, negative |-> <<>>, neutral |-> <<>>]

\* the accumulators after the first i documents of the loop
RECURSIVE KwLoop(_, _)
KwLoop(data, i) ==
    IF i = 0
    THEN [sentiment_scores |-> [positive |-> 0, negative |-> 0, neutral |-> 0],
          sentiment_breakdown |-> <<>>,
          sample_texts |-> EmptySamples]
    ELSE LET acc == KwLoop(data, i - 1)
             item == data[i]
             text == Lower(ItemText(item))
             c == KwClassify(text)
         IN  IF IsBlank(text)
             THEN acc
             ELSE [sentiment_scores |->
                       [acc.sentiment_scores EXCEPT ![c.sentiment] = @ + 1],
                   sentiment_breakdown |->
                       Append(acc.sentiment_breakdown,
                              [source |-> SourceOrUnknown(item),
                               sentiment |-> c.sentiment,
                               confidence |-> c.confidence,
                               text_preview |-> [text |-> text, dots |-> TRUE],
                               positive_keywords |-> c.positive_keywords,
                               negative_keywords |-> c.negative_keywords]),
                   sample_texts |->
                       AddSample(acc.sample_texts, c.sentiment, text)]

\* KwAggregate with a fault: the comparisons of the overall label are not
\* strict, so a tie for the greatest ratio is decided for a label
KwAggregateTieDecided(acc, total_items) ==
    LET p == acc.sentiment_scores.positive
        n == acc.sentiment_scores.negative
        u == acc.sentiment_scores.neutral
        max_count == Max(p, Max(n, u))
        overall_sentiment ==
            IF p >= n /\ p >= u THEN "positive"
            ELSE IF n >= p /\ n >= u THEN "negative"
            ELSE "neutral"
        confidence ==
            IF 5 * total_items + 4 * max_count >= 9 * total_items
            THEN Frac(9, 10)
            ELSE Frac(5 * total_items + 4 * max_count, 10 * total_items)
    IN  [overall |-> overall_sentiment,
         positive |-> Frac(p, total_items),
         negative |-> Frac(n, total_items),
         neutral |-> Frac(u, total_items),
         confidence |-> confidence,
         sample_texts |-> acc.sample_texts,
         sentiment_breakdown |-> acc.sentiment_breakdown,
         analysis_method |-> "keyword_based"]

\* the result built from the accumulators when some document was classified
KwAggregate(acc, total_items) ==
    LET p == acc.sentiment_scores.positive
        n == acc.sentiment_scores.negative
        u == acc.sentiment_scores.neutral
        max_count == Max(p, Max(n, u))
        overall_sentiment ==
            IF p > n /\ p > u THEN "positive"
            ELSE IF n > p /\ n > u THEN "negative"
            ELSE "neutral"
        \* min(0.9, 0.5 + max_ratio * 0.4) with max_ratio = max_count/total_items
        confidence ==
            IF 5 * total_items + 4 * max_count >= 9 * total_items
            THEN Frac(9, 10)
            ELSE Frac(5 * total_items + 4 * max_count, 10 * total_items)
    IN  [overall |-> overall_sentiment,
         positive |-> Frac(p, total_items),
         negative |-> Frac(n, total_items),
         neutral |-> Frac(u, total_items),
         confidence |-> confidence,
         sample_texts |-> acc.sample_texts,
         sentiment_breakdown |-> acc.sentiment_breakdown,
         analysis_method |-> "keyword_based"]

\* KeywordBased with a fault: the total_items == 0 branch is missing, so
\* the division by total_items raises
KeywordBasedNoZeroGuard(data) ==
    LET acc == KwLoop(data, Len(data))
        total_items == acc.sentiment_scores.positive
                       + acc.sentiment_scores.negative
                       + acc.sentiment_scores.neutral
    IN  IF total_items = 0
        THEN Raised("ZeroDivisionError")
        ELSE Returned(KwAggregate(acc, total_items))

KeywordBased(data) ==
    LET acc == KwLoop(data, Len(data))
        total_items == acc.sentiment_scores.positive
                       + acc.sentiment_scores.negative
                       + acc.sentiment_scores.neutral
    IN  IF total_items = 0
        THEN Returned([overall |-> "neutral",
                       positive |-> Frac(0, 1),
                       negative |-> Frac(0, 1),
                       neutral |-> Frac(1, 1),
                       confidence |-> Frac(5, 10),
                       sample_texts |-> acc.sample_texts,
                       sentiment_breakdown |-> acc.sentiment_breakdown,
                       analysis_method |-> "keyword_based"])
        ELSE Returned(KwAggregate(acc, total_items))

-----------------------------------------------------------------------------
(* SentimentAnalyzer._ai_sentiment_analysis *)

\* data[:n]
Prefix(data, n) == SubSeq(data, 1, Min(n, Len(data)))

\* text_samples: one entry per document of data[:15] whose text is not blank
RECURSIVE TextSamples(_)
TextSamples(data) ==
    IF data = <<>>
    THEN <<>>
    ELSE LET item == data[Len(data)]
             text == ItemText(item)
             before == TextSamples(SubSeq(data, 1, Len(data) - 1))
         IN  IF IsBlank(text)
             THEN before
             ELSE Append(before, [text |-> text,
                                  source |-> GetOrEmpty(item.source)])

\* The answers of the classification collaborator.  A call either raises
\* (API error, timeout) or returns a message whose content is not JSON, is
\* JSON but no object, or is an object.  Of an object the model keeps:
\*   items   : individual_sentiments, a list (k = "list") or no such key
\*   scores  : sentiment_scores, "absent" (no key), "nondict" (not an object)
\*             or "dict" with tenths per label, -1 for a label without key
\*   overall : overall_sentiment, or "<absent>"
\*   confidence : [k |-> "absent"] or a number
\* An element of items is an object with a sentiment label ("<absent>": no
\* such key) and a confidence, or no object at all (nondict).
ItemChoices ==
    {[nondict |-> FALSE, sentiment |-> "positive",
      confidence |-> [k |-> "num", v |-> Frac(85, 100)]],
     [nondict |-> FALSE, sentiment |-> "<absent>",
      confidence |-> [k |-> "absent", v |-> Frac(0, 1)]],
     [nondict |-> FALSE, sentiment |-> "bullish",
      confidence |-> [k |-> "num", v |-> Frac(85, 100)]],
     [nondict |-> TRUE, sentiment |-> "<absent>",
      confidence |-> [k |-> "absent", v |-> Frac(0, 1)]]}

RECURSIVE SeqsUpTo(_, _)
SeqsUpTo(set, n) ==
    IF n = 0
    THEN {<<>>}
    ELSE LET shorter == SeqsUpTo(set, n - 1)
         IN  shorter \cup {Append(q, x) : q \in shorter, x \in set}

ItemsChoices ==
    {[k |-> "absent", v |-> <<>>]}
    \cup {[k |-> "list", v |-> q] : q \in SeqsUpTo(ItemChoices, MaxItems)}

ScoresChoices ==
    {[k |-> "absent", positive |-> -1, negative |-> -1, neutral |-> -1],
     [k |-> "nondict", positive |-> -1, negative |-> -1, neutral |-> -1],
     [k |-> "dict", positive |-> 4, negative |-> 2, neutral |-> 4],
     [k |-> "dict", positive |-> 6, negative |-> -1, neutral |-> -1]}

TopChoices ==
    {[overall |-> "<absent>", confidence |-> [k |-> "absent", v |-> Frac(0, 1)]],
     [overall |-> "positive", confidence |-> [k |-> "num", v |-> Frac(8, 10)]]}

NoReply == [kind |-> "none"]

RaisingReplies == {[kind |-> "api_error"], [kind |-> "timeout"]}

ReturnedReplies ==
    {[kind |-> "not_json"], [kind |-> "not_object"]}
    \cup {[kind |-> "object", items |-> it, scores |-> sc,
           overall |-> top.overall, confidence |-> top.confidence] :
             it \in ItemsChoices, sc \in ScoresChoices, top \in TopChoices}

\* the response satisfies the schema the prompt asks for, for n texts sent
FullSchema(reply, n) ==
    /\ reply.kind = "object"
    /\ reply.items.k = "list"
    /\ Len(reply.items.v) >= n
    /\ \A i \in DOMAIN reply.items.v :
           /\ ~reply.items.v[i].nondict
           /\ reply.items.v[i].sentiment \in Labels
    /\ reply.scores.k = "dict"
    /\ \A l \in Labels : reply.scores[l] >= 0
    /\ reply.scores.positive + reply.scores.negative + reply.scores.neutral = 10
    /\ reply.overall \in Labels
    /\ reply.confidence.k = "num"

\* the loop over enumerate(ai_result.get('individual_sentiments', [])) :
\* the accumulators after the first i entries, or raised
RECURSIVE AiLoop(_, _, _)
AiLoop(items, text_samples, i) ==
    IF i = 0
    THEN [raised |-> FALSE, sentiment_breakdown |-> <<>>,
          sample_texts |-> EmptySamples]
    ELSE LET acc == AiLoop(items, text_samples, i - 1)
             sentiment_data == items[i]
             sentiment == IF sentiment_data.sentiment = "<absent>"
                          THEN "neutral" ELSE sentiment_data.sentiment
             text_sample == text_samples[i]
         IN  IF acc.raised \/ i > Len(text_samples)
             THEN acc
             ELSE IF sentiment_data.nondict \/ sentiment \notin Labels
             THEN [acc EXCEPT !.raised = TRUE]
             ELSE [raised |-> FALSE,
                   sentiment_breakdown |->
                       Append(acc.sentiment_breakdown,
                              [source |-> text_sample.source,
                               sentiment |-> sentiment,
                               confidence |->
                                   IF sentiment_data.confidence.k = "absent"
                                   THEN Frac(5, 10)
                                   ELSE sentiment_data.confidence.v,
                               text_preview |->
                                   [text |-> text_sample.text, dots |-> TRUE]]),
                   sample_texts |->
                       AddSample(acc.sample_texts, sentiment, text_sample.text)]

\* scores.get(label, 0.0)
ScoreOrZero(scores, label) ==
    IF scores.k = "dict" /\ scores[label] >= 0
    THEN Frac(scores[label], 10)
    ELSE Frac(0, 1)

\* the body of the try block after the call returned: the ai_powered result,
\* or raised (json.loads, .get on a non-object, sample_texts[sentiment])
AiProcess(reply, text_samples) ==
    IF reply.kind = "not_json" THEN Raised("JSONDecodeError")
    ELSE IF reply.kind = "not_object" THEN Raised("AttributeError")
    ELSE LET items == reply.items.v
             acc == AiLoop(items, text_samples, Len(items))
         IN  IF acc.raised THEN Raised("KeyError")
             ELSE IF reply.scores.k = "nondict" THEN Raised("AttributeError")
             ELSE Returned(
                    [overall |-> IF reply.overall = "<absent>"
                                 THEN "neutral" ELSE reply.overall,
                     positive |-> ScoreOrZero(reply.scores, "positive"),
                     negative |-> ScoreOrZero(reply.scores, "negative"),
                     neutral |-> ScoreOrZero(reply.scores, "neutral"),
                     confidence |-> IF reply.confidence.k = "absent"
                                    THEN Frac(7, 10) ELSE reply.confidence.v,
                     sample_texts |-> acc.sample_texts,
                     sentiment_breakdown |-> acc.sentiment_breakdown,
                     analysis_method |-> "ai_powered"])

-----------------------------------------------------------------------------
(* Documents and corpora *)

\* published_at: no key, None, '', a text that is no ISO date, or an ISO
\* date-time without offset (naive) or ending in Z (aware), given by its
\* hour number and its minute
PubAbsent == [k |-> "absent", form |-> "-", tz |-> "-", hour |-> 0, minute |-> 0]
PubNone == [k |-> "none", form |-> "-", tz |-> "-", hour |-> 0, minute |-> 0]
PubEmpty == [k |-> "str", form |-> "empty", tz |-> "-", hour |-> 0, minute |-> 0]
PubBad == [k |-> "str", form |-> "not-a-date", tz |-> "-", hour |-> 0, minute |-> 0]
PubIso(tz, hour, minute) ==
    [k |-> "str", form |-> "iso", tz |-> tz, hour |-> hour, minute |-> minute]

Doc(title, content, published_at, source) ==
    [title |-> title, content |-> content,
     published_at |-> published_at, source |-> source]

DocPos ==
    Doc(S(<<"growth", "surge">>), S(<<"market">>),
        PubIso("naive", 0, 30), S(<<"news">>))
DocNeg ==
    Doc(S(<<"crash">>), S(<<"decline", "market">>),
        PubIso("naive", 1, 0), S(<<"reddit">>))
DocBlank ==
    Doc(S(<<>>), Absent, PubIso("naive", 0, 0), S(<<"news">>))
DocNull ==
    Doc(None, S(<<>>), PubIso("naive", 1, 30), Absent)

SentDocs == {DocPos, DocNeg, DocBlank, DocNull}

\* two positive and two neutral keywords, no negative one
DocHedged ==
    Doc(S(<<"growth", "surge">>), S(<<"stable", "steady", "market">>),
        PubIso("naive", 0, 30), S(<<"news">>))

\* the first n documents of the motif repeated
Cycle(motif, n) == [i \in 1..n |-> motif[((i - 1) % Len(motif)) + 1]]

\* the corpus lengths: the short ones, and the two limits; a corpus of the
\* second family is one document longer
SentLens == (0..MaxLen) \cup {AiSampleLimit, AiCorpusLimit}

SentCorpora ==
    {Cycle(<<a, b>>, n) : a \in SentDocs, b \in SentDocs, n \in SentLens}
    \cup {Append(Cycle(<<a>>, n), b) : a \in SentDocs, b \in SentDocs, n \in SentLens}

\* one positive and one negative keyword
DocMixed ==
    Doc(S(<<"growth">>), S(<<"crash", "market">>),
        PubIso("naive", 0, 30), S(<<"news">>))
\* one neutral keyword only
DocCalm ==
    Doc(S(<<"stable">>), S(<<"market">>),
        PubIso("naive", 0, 30), S(<<"news">>))

\* corpora of documents whose keyword counts tie, and of one document of
\* each label
TieCorpora ==
    {<<DocMixed>>, <<DocCalm, DocHedged>>, <<DocPos, DocNeg, DocCalm>>}

\* the corpora of the end-to-end scenario: 5 documents, 3 of them with 2
\* positive and no negative keyword, 2 with 2 negative and no positive one
ScenarioCorpora ==
    {<<a, DocNeg, b, DocNeg, c>> :
         a \in {DocPos, DocHedged}, b \in {DocPos, DocHedged},
         c \in {DocPos, DocHedged}}
    \cup {<<DocNeg, DocNeg, a, a, a>> : a \in {DocPos, DocHedged}}

-----------------------------------------------------------------------------
(* SentimentAnalyzer.analyze_sentiment *)

\* EmptySentiment with a fault: the confidence of the all-blank result
EmptySentimentHalfConfident ==
    [overall |-> "neutral",
     positive |-> Frac(0, 1),
     negative |-> Frac(0, 1),
     neutral |-> Frac(1, 1),
     confidence |-> Frac(5, 10),
     sample_texts |-> EmptySamples,
     sentiment_breakdown |-> <<>>,
     analysis_method |-> "<absent>"]

\* the result of the "if not data" branch (it has no analysis_method key)
EmptySentiment ==
    [overall |-> "neutral",
     positive |-> Frac(0, 1),
     negative |-> Frac(0, 1),
     neutral |-> Frac(1, 1),
     confidence |-> Frac(0, 1),
     sample_texts |-> EmptySamples,
     sentiment_breakdown |-> <<>>,
     analysis_method |-> "<absent>"]

\* one execution of the keyword path: its outcome and the executions counted
KeywordRun(data) == [out |-> KeywordBased(data), kw |-> 1]

\* "except Exception" of analyze_sentiment around a run of either path:
\* whatever was raised, the keyword path is executed (again) and its outcome
\* is the outcome of the call
OuterExcept(run, data) ==
    IF run.out.kind = "raised"
    THEN [out |-> KeywordBased(data), kw |-> run.kw + 1]
    ELSE run

\* InnerExcept with a fault: the fallback classifies only the documents
\* that were sampled for the collaborator
InnerExceptSampled(tried, data) ==
    IF tried.kind = "raised"
    THEN KeywordRun(Prefix(data, AiSampleLimit))
    ELSE [out |-> tried, kw |-> 0]

\* "except Exception" of _ai_sentiment_analysis around the call and the
\* processing of its answer
InnerExcept(tried, data) ==
    IF tried.kind = "raised" THEN KeywordRun(data) ELSE [out |-> tried, kw |-> 0]

\* UsesAi with a fault: the limit is exclusive
UsesAiBelowLimit(key, data) == key /\ Len(data) < AiCorpusLimit

\* the strategy selection: the model-assisted path is entered
UsesAi(key, data) == key /\ Len(data) <= AiCorpusLimit

\* entry of analyze_sentiment up to its return or up to the collaborator call
AnalyzeSentiment ==
    /\ \/ engine \in {"sentiment", "both"}
       \/ engine = "app" /\ appPc = "processing"
    /\ sPc = "start"
    /\ IF corpus = <<>>
       THEN /\ sOut' = Returned(EmptySentiment)
            /\ sPc' = "done"
            /\ UNCHANGED <<textSamples, aiAttempted, kwRuns>>
       ELSE IF UsesAi(apiKey, corpus)
       THEN LET text_samples == TextSamples(Prefix(corpus, AiSampleLimit))
                run == OuterExcept(KeywordRun(corpus), corpus)
            IN  /\ aiAttempted' = TRUE
                /\ textSamples' = text_samples
                /\ IF text_samples = <<>>
                   THEN /\ sOut' = run.out
                        /\ kwRuns' = kwRuns + run.kw
                        /\ sPc' = "done"
                   ELSE /\ sPc' = "ai_call"
                        /\ UNCHANGED <<sOut, kwRuns>>
       ELSE LET run == OuterExcept(KeywordRun(corpus), corpus)
            IN  /\ sOut' = run.out
                /\ kwRuns' = kwRuns + run.kw
                /\ sPc' = "done"
                /\ UNCHANGED <<textSamples, aiAttempted>>
    /\ UNCHANGED <<engine, corpus, apiKey, query, appVars, aiCalls, aiReply, trendVars>>

\* AiCallRaises with a fault: a failed call is tried again
AiCallRaisesRetry ==
    /\ sPc = "ai_call"
    /\ aiCalls < 3
    /\ \E reply \in RaisingReplies :
          /\ aiReply' = reply
          /\ aiCalls' = aiCalls + 1
    /\ UNCHANGED <<engine, corpus, apiKey, query, appVars, textSamples, aiAttempted, kwRuns,
                   sOut, sPc, trendVars>>

\* openai.ChatCompletion.create raises (API error, timeout)
AiCallRaises ==
    /\ sPc = "ai_call"
    /\ \E reply \in RaisingReplies :
          LET run == OuterExcept(InnerExcept(Raised(reply.kind), corpus), corpus)
          IN  /\ aiReply' = reply
              /\ aiCalls' = aiCalls + 1
              /\ sOut' = run.out
              /\ kwRuns' = kwRuns + run.kw
              /\ sPc' = "done"
    /\ UNCHANGED <<engine, corpus, apiKey, query, appVars, textSamples, aiAttempted, trendVars>>

\* openai.ChatCompletion.create returns and the answer is processed
AiCallReturns ==
    /\ sPc = "ai_call"
    /\ \E reply \in ReturnedReplies :
          LET run == OuterExcept(
                         InnerExcept(AiProcess(reply, textSamples), corpus),
                         corpus)
          IN  /\ aiReply' = reply
              /\ aiCalls' = aiCalls + 1
              /\ sOut' = run.out
              /\ kwRuns' = kwRuns + run.kw
              /\ sPc' = "done"
    /\ UNCHANGED <<engine, corpus, apiKey, query, appVars, textSamples, aiAttempted, trendVars>>

-----------------------------------------------------------------------------
(* TrendDetector: time bucketing (_extract_keywords_over_time, first loop) *)

\* datetime.fromisoformat(item['published_at'].replace('Z', '+00:00')) :
\* a datetime, naive or aware, or raised (ValueError)
FromIsoFormat(published_at) ==
    IF published_at.form = "iso"
    THEN Returned([tz |-> published_at.tz, hour |-> published_at.hour,
                   minute |-> published_at.minute])
    ELSE Raised("ValueError")

\* bool(item.get('published_at')) : a missing key, None and '' are falsy
HasPublishedAt(item) ==
    item.published_at.k = "str" /\ item.published_at.form # "empty"

\* pub_date.replace(minute=0, second=0, microsecond=0)
HourKey(date) == [tz |-> date.tz, hour |-> date.hour]

\* datetime.utcnow().replace(minute=0, second=0, microsecond=0) : utcnow()
\* is a naive datetime
FallbackKey(now) == [tz |-> "naive", hour |-> now]

\* time_periods[key].append(i) on a defaultdict(list) that keeps the order
\* in which its keys were first inserted
RECURSIVE AppendToPeriod(_, _, _)
AppendToPeriod(periods, key, i) ==
    IF periods = <<>>
    THEN <<[key |-> key, items |-> <<i>>]>>
    ELSE IF periods[1].key = key
    THEN <<[key |-> key, items |-> Append(periods[1].items, i)]>>
         \o Tail(periods)
    ELSE <<periods[1]>> \o AppendToPeriod(Tail(periods), key, i)

\* the body of "for item in data" for the document with index i, with the
\* wall clock at hour now: time_periods afterwards
BucketOf(periods, data, i, now) ==
    LET item == data[i]
        parsed == FromIsoFormat(item.published_at)
    IN  IF ~HasPublishedAt(item)
        THEN periods
        ELSE IF parsed.kind = "raised"
        THEN AppendToPeriod(periods, FallbackKey(now), i)
        ELSE AppendToPeriod(periods, HourKey(parsed.result), i)

-----------------------------------------------------------------------------
(* TrendDetector: keywords per bucket and the keyword timeline *)

stop_words ==
    {"the", "a", "an", "and", "or", "but", "in", "on", "at", "to", "for", "of",
     "with", "by", "is", "are", "was", "were", "be", "been", "being", "have",
     "has", "had", "do", "does", "did", "will", "would", "could", "should",
     "may", "might", "must", "this", "that", "these", "those", "i", "you",
     "he", "she", "it", "we", "they", "me", "him", "her", "us", "them", "my",
     "your", "his", "its", "our", "their"}

\* the words of the model's vocabulary with at most 3 letters, stop words aside
ShortWords == {"ai", "ipo"}

\* re.sub(r'[^a-zA-Z\s]', ' ', ...) followed by split(): the only word of the
\* model with a character that is no letter is "ai-driven"
Tokens(word) == IF word = "ai-driven" THEN <<"ai", "driven">> ELSE <<word>>

RECURSIVE Tokenize(_)
Tokenize(text) ==
    IF text = <<>> THEN <<>> ELSE Tokens(Head(text)) \o Tokenize(Tail(text))

\* len(word) > 3 and word not in self.stop_words
IsKeywordWord(word) == word \notin ShortWords /\ word \notin stop_words

\* Counter.most_common(50)
TopKeywordCount == 50

\* all_text of the documents with the given indices
RECURSIVE AllText(_, _)
AllText(data, items) ==
    IF items = <<>>
    THEN <<>>
    ELSE ItemText(data[Head(items)]) \o AllText(data, Tail(items))

\* Counter(keywords).most_common(n) : the pairs (word, count) by falling
\* count, words of equal count in the order of their first occurrence
MostCommon(keywords, n) ==
    LET distinct == {keywords[j] : j \in DOMAIN keywords}
        Count(w) == Cardinality({j \in DOMAIN keywords : keywords[j] = w})
        First(w) == CHOOSE j \in DOMAIN keywords :
                        /\ keywords[j] = w
                        /\ \A h \in 1..(j - 1) : keywords[h] # w
        Rank(w) == Cardinality({u \in distinct :
                        \/ Count(u) > Count(w)
                        \/ Count(u) = Count(w) /\ First(u) < First(w)})
    IN  [r \in 1..Min(n, Cardinality(distinct)) |->
            LET w == CHOOSE u \in distinct : Rank(u) = r - 1
            IN  [keyword |-> w, count |-> Count(w)]]

\* _extract_keywords_from_texts for the documents with the given indices
ExtractKeywordsFromTexts(data, items) ==
    LET words == Tokenize(Lower(AllText(data, items)))
        keywords == SelectSeq(words, IsKeywordWord)
    IN  MostCommon(keywords, TopKeywordCount)

\* keywords_timeline[keyword].append((time_period, count)) on a
\* defaultdict(list) that keeps the order in which keywords were inserted
RECURSIVE AppendToTimeline(_, _, _, _)
AppendToTimeline(timelines, keyword, time_period, count) ==
    IF timelines = <<>>
    THEN <<[keyword |-> keyword,
            timeline |-> <<[time |-> time_period, count |-> count]>>]>>
    ELSE IF timelines[1].keyword = keyword
    THEN <<[keyword |-> keyword,
            timeline |-> Append(timelines[1].timeline,
                                [time |-> time_period, count |-> count])]>>
         \o Tail(timelines)
    ELSE <<timelines[1]>>
         \o AppendToTimeline(Tail(timelines), keyword, time_period, count)

\* the inner loop "for keyword, count in period_keywords.items()"
RECURSIVE AddPeriodKeywords(_, _, _)
AddPeriodKeywords(timelines, time_period, period_keywords) ==
    IF period_keywords = <<>>
    THEN timelines
    ELSE AddPeriodKeywords(
             AppendToTimeline(timelines, Head(period_keywords).keyword,
                              time_period, Head(period_keywords).count),
             time_period, Tail(period_keywords))

\* the second loop of _extract_keywords_over_time over the first p periods
RECURSIVE KeywordsTimeline(_, _, _)
KeywordsTimeline(data, periods, p) ==
    IF p = 0
    THEN <<>>
    ELSE AddPeriodKeywords(
             KeywordsTimeline(data, periods, p - 1),
             periods[p].key,
             ExtractKeywordsFromTexts(data, periods[p].items))

-----------------------------------------------------------------------------
(* TrendDetector: emerging and declining topics *)

\* comparing a naive with an aware datetime raises TypeError: a sort of two
\* or more entries compares across the two kinds when both are present
MixedZones(times) ==
    /\ Len(times) >= 2
    /\ \E a \in DOMAIN times, b \in DOMAIN times : times[a].tz # times[b].tz

\* SortByTime with a fault: the timeline is left in insertion order
SortByTimeUnsorted(timeline) == timeline

\* timeline.sort(key=lambda x: x[0]) where it does not raise; the entries of
\* one timeline are of distinct buckets
SortByTime(timeline) ==
    [r \in DOMAIN timeline |->
        CHOOSE e \in {timeline[j] : j \in DOMAIN timeline} :
            Cardinality({j \in DOMAIN timeline :
                            timeline[j].time.hour < e.time.hour}) = r - 1]

TimesOf(timeline) == [j \in DOMAIN timeline |-> timeline[j].time]

RECURSIVE SumCounts(_)
SumCounts(timeline) ==
    IF timeline = <<>> THEN 0 ELSE Head(timeline).count + SumCounts(Tail(timeline))

\* timeline[-3:] and timeline[:3]
LastThree(timeline) ==
    SubSeq(timeline, Max(1, Len(timeline) - 2), Len(timeline))
\* FirstThree with a fault: the window is the first 2 entries
FirstThreeShort(timeline) == SubSeq(timeline, 1, Min(2, Len(timeline)))
FirstThree(timeline) == SubSeq(timeline, 1, Min(3, Len(timeline)))

TopicCap == 10

\* recent_avg > earlier_avg * 1.5 and recent_avg >= 2, both averages over
\* the same number of entries
IsEmerging(timeline) ==
    LET sorted == SortByTime(timeline)
        recent == SumCounts(LastThree(sorted))
        earlier == SumCounts(FirstThree(sorted))
        window == Len(FirstThree(sorted))
    IN  2 * recent > 3 * earlier /\ recent >= 2 * window

\* IsDeclining with a fault: the two averages are exchanged
IsDecliningExchanged(timeline) ==
    LET sorted == SortByTime(timeline)
        recent == SumCounts(LastThree(sorted))
        earlier == SumCounts(FirstThree(sorted))
        window == Len(FirstThree(sorted))
    IN  2 * recent > 3 * earlier /\ recent >= 3 * window

\* earlier_avg > recent_avg * 1.5 and earlier_avg >= 3
IsDeclining(timeline) ==
    LET sorted == SortByTime(timeline)
        recent == SumCounts(LastThree(sorted))
        earlier == SumCounts(FirstThree(sorted))
        window == Len(FirstThree(sorted))
    IN  2 * earlier > 3 * recent /\ earlier >= 3 * window

\* the keywords, in the order of the map, with at least 2 timeline points
\* that pass the test named by which
RECURSIVE TopicsPassing(_, _)
TopicsPassing(timelines, which) ==
    IF timelines = <<>>
    THEN <<>>
    ELSE LET timeline == Head(timelines).timeline
             passes == IF which = "emerging"
                       THEN IsEmerging(timeline) ELSE IsDeclining(timeline)
         IN  IF Len(timeline) >= 2 /\ passes
             THEN <<Head(timelines).keyword>>
                  \o TopicsPassing(Tail(timelines), which)
             ELSE TopicsPassing(Tail(timelines), which)

\* some timeline.sort of the topic detection raises
TopicSortRaises(timelines) ==
    \E j \in DOMAIN timelines : MixedZones(TimesOf(timelines[j].timeline))

\* _detect_emerging_topics
DetectEmergingTopics(timelines) ==
    IF TopicSortRaises(timelines)
    THEN Raised("TypeError")
    ELSE Returned(Prefix(TopicsPassing(timelines, "emerging"), TopicCap))

\* _detect_declining_topics
DetectDecliningTopics(timelines) ==
    IF TopicSortRaises(timelines)
    THEN Raised("TypeError")
    ELSE Returned(Prefix(TopicsPassing(timelines, "declining"), TopicCap))

-----------------------------------------------------------------------------
(* TrendDetector: direction, indicators, confidence, analysis period *)

trend_indicators ==
    [growth |-> {<<"growth">>, <<"expansion">>, <<"increase">>, <<"rising">>,
                 <<"surge">>, <<"boom">>, <<"rally">>},
     decline |-> {<<"decline">>, <<"decrease">>, <<"falling">>, <<"drop">>,
                  <<"crash">>, <<"plunge">>, <<"downturn">>},
     volatility |-> {<<"volatile">>, <<"fluctuation">>, <<"uncertainty">>,
                     <<"unstable">>, <<"erratic">>},
     innovation |-> {<<"innovation">>, <<"breakthrough">>, <<"technology">>,
                     <<"disruption">>, <<"advancement">>},
     regulation |-> {<<"regulation">>, <<"policy">>, <<"government">>,
                     <<"compliance">>, <<"legal">>},
     competition |-> {<<"competition">>, <<"competitor">>,
                      <<"market", "share">>, <<"rivalry">>}]

Categories == DOMAIN trend_indicators

\* text.count(indicator) : the words of the model contain an indicator word
\* only by being that word
Occurrences(text, indicator) ==
    Cardinality({j \in 1..(Len(text) - Len(indicator) + 1) :
                    SubSeq(text, j, j + Len(indicator) - 1) = indicator})

RECURSIVE SumOver(_, _, _)
\* the sum of text.count(indicator) over the indicators of a set
SumOver(text, indicators, done) ==
    IF indicators = done
    THEN 0
    ELSE LET ind == CHOOSE x \in indicators \ done : TRUE
         IN  Occurrences(text, ind) + SumOver(text, indicators, done \cup {ind})

\* the occurrences of the indicators of a category in the first i documents
RECURSIVE CategoryCount(_, _, _)
CategoryCount(data, category, i) ==
    IF i = 0
    THEN 0
    ELSE CategoryCount(data, category, i - 1)
         + SumOver(Lower(ItemText(data[i])), trend_indicators[category], {})

RECURSIVE Gcd(_, _)
Gcd(a, b) == IF b = 0 THEN a ELSE Gcd(b, a % b)

\* a fraction in lowest terms
Reduce(f) ==
    LET g == Gcd(f.n, f.d) IN IF g = 0 THEN f ELSE Frac(f.n \div g, f.d \div g)

FracAdd(f, g) == Reduce(Frac(f.n * g.d + g.n * f.d, f.d * g.d))
FracMul(f, g) == Reduce(Frac(f.n * g.n, f.d * g.d))
FracLeq(f, g) == f.n * g.d <= g.n * f.d
FracEq(f, g) == f.n * g.d = g.n * f.d
FracMin(f, g) == IF FracLeq(f, g) THEN f ELSE g

\* _analyze_trend_direction
AnalyzeTrendDirection(data) ==
    LET growth_indicators == CategoryCount(data, "growth", Len(data))
        decline_indicators == CategoryCount(data, "decline", Len(data))
        total_indicators == growth_indicators + decline_indicators
    IN  IF total_indicators = 0
        THEN [direction |-> "stable", strength |-> Frac(5, 10)]
        \* growth_ratio > 0.6
        ELSE IF 5 * growth_indicators > 3 * total_indicators
        THEN [direction |-> "rising",
              \* min(0.9, 0.5 + (growth_ratio - 0.5))
              strength |-> FracMin(Frac(9, 10),
                                   Frac(growth_indicators, total_indicators))]
        ELSE IF 5 * decline_indicators > 3 * total_indicators
        THEN [direction |-> "declining",
              strength |-> FracMin(Frac(9, 10),
                                   Frac(decline_indicators, total_indicators))]
        ELSE [direction |-> "stable", strength |-> Frac(5, 10)]

\* _identify_trend_indicators
IdentifyTrendIndicators(data) ==
    [category \in Categories |-> CategoryCount(data, category, Len(data))]

\* the list "dates" of _get_time_span_hours and _get_analysis_period: the
\* parsed published_at of the documents that have one that parses
RECURSIVE ParsedDates(_)
ParsedDates(data) ==
    IF data = <<>>
    THEN <<>>
    ELSE LET item == data[Len(data)]
             before == ParsedDates(SubSeq(data, 1, Len(data) - 1))
             parsed == FromIsoFormat(item.published_at)
         IN  IF HasPublishedAt(item) /\ parsed.kind = "returned"
             THEN Append(before, parsed.result)
             ELSE before

Minutes(date) == 60 * date.hour + date.minute

\* dates[0] and dates[-1] after dates.sort()
Earliest(dates) ==
    CHOOSE e \in {dates[j] : j \in DOMAIN dates} :
        \A j \in DOMAIN dates : Minutes(e) <= Minutes(dates[j])
Latest(dates) ==
    CHOOSE e \in {dates[j] : j \in DOMAIN dates} :
        \A j \in DOMAIN dates : Minutes(e) >= Minutes(dates[j])

\* _get_time_span_hours : hours as a fraction, or raised by dates.sort()
GetTimeSpanHours(data) ==
    LET dates == ParsedDates(data)
    IN  IF Len(dates) < 2
        THEN Returned(Frac(1, 1))
        ELSE IF MixedZones(dates)
        THEN Raised("TypeError")
        ELSE Returned(Frac(Minutes(Latest(dates)) - Minutes(Earliest(dates)), 60))

\* the counts of a timeline in time order are non-decreasing, non-increasing
\* or differ by at most 1
IsConsistent(timeline) ==
    LET sorted == SortByTime(timeline)
        counts == [j \in DOMAIN sorted |-> sorted[j].count]
        increasing == \A j \in 1..(Len(counts) - 1) : counts[j] <= counts[j + 1]
        decreasing == \A j \in 1..(Len(counts) - 1) : counts[j] >= counts[j + 1]
        stable == \A a \in DOMAIN counts, b \in DOMAIN counts :
                      counts[a] - counts[b] <= 1
    IN  increasing \/ decreasing \/ stable

\* _calculate_trend_consistency (its sorts are of timelines the topic
\* detection has sorted before)
CalculateTrendConsistency(timelines) ==
    LET long == {j \in DOMAIN timelines : Len(timelines[j].timeline) >= 3}
        consistent == {j \in long : IsConsistent(timelines[j].timeline)}
    IN  IF long = {}
        THEN Frac(5, 10)
        ELSE Frac(Cardinality(consistent), Cardinality(long))

\* item.get(key, '').strip() : raises AttributeError on None
StripRaises(field) == field.k = "none"

\* bool(item.get(key, '').strip()) for a text field
HasText(field) == field.k = "str" /\ field.v # <<>>

\* bool(item.get('published_at', '').strip())
HasDate(published_at) == published_at.k = "str" /\ published_at.form # "empty"

\* the fields of an item on which .strip() is called
QualityRaises(item) ==
    \/ StripRaises(item.title)
    \/ StripRaises(item.content)
    \/ item.published_at.k = "none"
    \/ StripRaises(item.source)

\* completeness >= 0.75 : at least 3 of the 4 fields
IsComplete(item) ==
    LET has == <<HasText(item.title), HasText(item.content),
                 HasDate(item.published_at), HasText(item.source)>>
    IN  Cardinality({j \in 1..4 : has[j]}) >= 3

\* _calculate_data_quality_score for a non-empty data
CalculateDataQualityScore(data) ==
    IF \E j \in DOMAIN data : QualityRaises(data[j])
    THEN Raised("AttributeError")
    ELSE Returned(Frac(Cardinality({j \in DOMAIN data : IsComplete(data[j])}),
                       Len(data)))

\* Round2 with a fault: the value is not rounded
Round2Unrounded(f) == f

\* round(x, 2) on the exact value, ties to the even hundredth
Round2(f) ==
    LET scaled == 100 * f.n
        low == scaled \div f.d
        rest == scaled - low * f.d
    IN  IF 2 * rest > f.d \/ (2 * rest = f.d /\ low % 2 = 1)
        THEN Frac(low + 1, 100)
        ELSE Frac(low, 100)

One == Frac(1, 1)

\* _calculate_trend_confidence
CalculateTrendConfidence(data, timelines) ==
    LET data_amount_score == FracMin(One, Frac(Len(data), 50))
        time_span_hours == GetTimeSpanHours(data)
        time_span_score ==
            FracMin(One, FracMul(time_span_hours.result, Frac(1, 168)))
        consistency_score == CalculateTrendConsistency(timelines)
        quality_score == CalculateDataQualityScore(data)
        confidence ==
            FracAdd(FracAdd(FracMul(data_amount_score, Frac(3, 10)),
                            FracMul(time_span_score, Frac(2, 10))),
                    FracAdd(FracMul(consistency_score, Frac(3, 10)),
                            FracMul(quality_score.result, Frac(2, 10))))
    IN  IF time_span_hours.kind = "raised" THEN time_span_hours
        ELSE IF quality_score.kind = "raised" THEN quality_score
        ELSE Returned(Round2(confidence))

\* _get_analysis_period
GetAnalysisPeriod(data) ==
    LET dates == ParsedDates(data)
        minutes == Minutes(Latest(dates)) - Minutes(Earliest(dates))
    IN  IF dates = <<>>
        THEN Returned([known |-> FALSE])
        ELSE IF MixedZones(dates)
        THEN Raised("TypeError")
        ELSE Returned([known |-> TRUE,
                       start |-> Earliest(dates),
                       end |-> Latest(dates),
                       days |-> minutes \div 1440,
                       hours |-> (minutes % 1440) \div 60])

-----------------------------------------------------------------------------
(* TrendDetector.detect_trends *)

\* EmptyTrend with a fault: the confidence of the degraded result
EmptyTrendLowConfidence ==
    [direction |-> "stable",
     strength |-> Frac(5, 10),
     emerging_topics |-> <<>>,
     declining_topics |-> <<>>,
     trend_indicators |-> [category \in {} |-> 0],
     confidence |-> Frac(3, 10)]

\* the result of the "if not data" branch
EmptyTrend ==
    [direction |-> "stable",
     strength |-> Frac(5, 10),
     emerging_topics |-> <<>>,
     declining_topics |-> <<>>,
     trend_indicators |-> [category \in {} |-> 0],
     confidence |-> Frac(0, 10)]

\* the result of the "except Exception" branch
DegradedTrend(error) ==
    [direction |-> "stable",
     strength |-> Frac(5, 10),
     emerging_topics |-> <<>>,
     declining_topics |-> <<>>,
     trend_indicators |-> [category \in {} |-> 0],
     confidence |-> Frac(3, 10),
     error |-> error]

\* the try block after the bucketing loop: the result, or what was raised
TrendBody(data, periods) ==
    LET keywords_over_time == KeywordsTimeline(data, periods, Len(periods))
        emerging_topics == DetectEmergingTopics(keywords_over_time)
        declining_topics == DetectDecliningTopics(keywords_over_time)
        trend == AnalyzeTrendDirection(data)
        confidence == CalculateTrendConfidence(data, keywords_over_time)
        analysis_period == GetAnalysisPeriod(data)
    IN  IF emerging_topics.kind = "raised" THEN emerging_topics
        ELSE IF declining_topics.kind = "raised" THEN declining_topics
        ELSE IF confidence.kind = "raised" THEN confidence
        ELSE IF analysis_period.kind = "raised" THEN analysis_period
        ELSE Returned(
               [direction |-> trend.direction,
                strength |-> trend.strength,
                emerging_topics |-> emerging_topics.result,
                declining_topics |-> declining_topics.result,
                trend_indicators |-> IdentifyTrendIndicators(data),
                confidence |-> confidence.result,
                analysis_period |-> analysis_period.result,
                data_points |-> Len(data)])

\* TrendExcept with a fault: only AttributeError is caught
TrendExceptOnlyAttributeError(tried) ==
    IF tried.kind = "raised" /\ tried.result.error = "AttributeError"
    THEN Returned(DegradedTrend(tried.result.error))
    ELSE tried

\* "except Exception as e" of detect_trends
TrendExcept(tried) ==
    IF tried.kind = "raised"
    THEN Returned(DegradedTrend(tried.result.error))
    ELSE tried

\* the hour of the wall clock when detect_trends is entered
NowHour == 1
\* how many hour boundaries the wall clock may pass during one call
MaxTicks == 1
\* longest corpus handed to detect_trends
MaxTrendLen == 2

TextA == [title |-> S(<<"growth", "surge">>), content |-> S(<<"market">>)]
TextB ==
    [title |-> S(<<"crash">>),
     content |-> S(<<"market", "with", "ai-driven", "ipo">>)]

TrendPubs ==
    {PubAbsent, PubEmpty, PubNone, PubBad,
     PubIso("naive", 0, 30), PubIso("naive", 1, 0), PubIso("aware", 0, 0)}

TrendDocs ==
    {Doc(TextA.title, TextA.content, p, S(<<"news">>)) : p \in TrendPubs}
    \cup {Doc(TextB.title, TextB.content, p, S(<<"reddit">>)) :
              p \in {PubBad, PubIso("naive", 1, 0), PubIso("aware", 0, 0)}}
    \cup {DocNull}

TrendCorpora == SeqsUpTo(TrendDocs, MaxTrendLen)

\* the most hour buckets a topic corpus spans
TopicBuckets == 6
\* how often the keyword stands in the document of one bucket
TopicCounts == {1, 2, 3, 4}

Repeat(word, n) == [i \in 1..n |-> word]
Reverse(seq) == [i \in DOMAIN seq |-> seq[Len(seq) + 1 - i]]

\* the document of the hour: "report" once and "lithium" count times
TopicDoc(hour, count, source) ==
    Doc(S(<<"report">>), S(Repeat("lithium", count)),
        PubIso("naive", hour, 0), source)

\* one document per hour over n hours, the keyword early times in each
\* document of the first half and late times in each of the second half;
\* the source of the last document is as given
TopicCorpus(early, late, n, source) ==
    [i \in 1..n |->
        TopicDoc(i - 1,
                 IF 2 * i <= n + 1 THEN early ELSE late,
                 IF i = n THEN source ELSE S(<<"news">>))]

\* the topic corpora, oldest document first or newest first
TopicCorpora ==
    LET forward == {TopicCorpus(early, late, n, source) :
                        early \in TopicCounts, late \in TopicCounts,
                        n \in 2..TopicBuckets, source \in {S(<<"news">>), None}}
    IN  forward \cup {Reverse(data) : data \in forward}

\* the keywords of the many-topic corpora, in the order of the text
TopicWords ==
    <<"lithium", "cobalt", "nickel", "copper", "silver", "graphite",
      "uranium", "helium", "cement", "timber", "cotton", "barley">>

\* how often the word at position w stands in the document of the hour:
\* "nickel" once in every hour, "barley" twice at one end and high + 1
\* times at the other, every other word once at one end and high times at
\* the other; the odd hour is the last when rising and the first when not
TopicWordCount(w, hour, rising, high) ==
    LET odd == IF rising THEN hour = 3 ELSE hour = 0
    IN  IF TopicWords[w] = "nickel" THEN 1
        ELSE IF TopicWords[w] = "barley"
        THEN (IF odd THEN high + 1
              ELSE IF (rising /\ hour = 0) \/ (~rising /\ hour = 3)
              THEN 2 ELSE 1)
        ELSE IF odd THEN high ELSE 1

RECURSIVE TopicWordsText(_, _, _, _)
TopicWordsText(w, hour, rising, high) ==
    IF w = 0
    THEN <<>>
    ELSE TopicWordsText(w - 1, hour, rising, high)
         \o Repeat(TopicWords[w], TopicWordCount(w, hour, rising, high))

\* one document per hour over 4 hours with every word of TopicWords; the
\* source of the last document is as given
ManyTopicCorpus(rising, source) ==
    [i \in 1..4 |->
        Doc(S(<<"report">>),
            S(TopicWordsText(Len(TopicWords), i - 1, rising,
                             IF rising THEN 4 ELSE 7)),
            PubIso("naive", i - 1, 0),
            IF i = 4 THEN source ELSE S(<<"news">>))]

\* the many-topic corpora, oldest document first or newest first
ManyTopicCorpora ==
    LET forward == {ManyTopicCorpus(rising, source) :
                        rising \in BOOLEAN, source \in {S(<<"news">>), None}}
    IN  forward \cup {Reverse(data) : data \in forward}

\* one document per hour over 4 hours, "lithium" rising from 1 to 4 and
\* "cobalt" falling from 7 to 1
CrossTopicCorpus ==
    [i \in 1..4 |->
        Doc(S(<<"report">>),
            S(Repeat("lithium", IF i = 4 THEN 4 ELSE 1)
              \o Repeat("cobalt", IF i = 1 THEN 7 ELSE 1)),
            PubIso("naive", i - 1, 0), S(<<"news">>))]

\* the query strings handed to detect_trends; analyze_sentiment takes none
Queries == {"", "tesla stock"}
NoQuery == "<none>"

\* entry of detect_trends
DetectTrends ==
    /\ \/ engine \in {"trend", "both"}
       \/ engine = "app" /\ appPc = "processing" /\ sPc = "done"
    /\ tPc = "start"
    /\ IF corpus = <<>>
       THEN /\ tOut' = Returned(EmptyTrend)
            /\ tPc' = "done"
       ELSE /\ tPc' = "bucketing"
            /\ UNCHANGED tOut
    /\ UNCHANGED <<engine, corpus, apiKey, query, appVars, sentVars, tIdx, clock, timePeriods>>

\* BucketItem with a fault: the loop takes published_at out of the document
\* (item.pop) instead of reading it
BucketItemConsuming ==
    /\ tPc = "bucketing"
    /\ tIdx <= Len(corpus)
    /\ timePeriods' = BucketOf(timePeriods, corpus, tIdx, clock)
    /\ tIdx' = tIdx + 1
    /\ corpus' = [corpus EXCEPT ![tIdx].published_at = PubAbsent]
    /\ UNCHANGED <<engine, apiKey, query, appVars, sentVars, tPc, clock, tOut>>

\* one iteration of "for item in data" of _extract_keywords_over_time
BucketItem ==
    /\ tPc = "bucketing"
    /\ tIdx <= Len(corpus)
    /\ timePeriods' = BucketOf(timePeriods, corpus, tIdx, clock)
    /\ tIdx' = tIdx + 1
    /\ UNCHANGED <<engine, corpus, apiKey, query, appVars, sentVars, tPc, clock, tOut>>

\* the wall clock passes an hour boundary while the corpus is bucketed
Tick ==
    /\ tPc = "bucketing"
    /\ clock < NowHour + MaxTicks
    /\ clock' = clock + 1
    /\ UNCHANGED <<engine, corpus, apiKey, query, appVars, sentVars, tPc, tIdx, timePeriods, tOut>>

\* the rest of detect_trends once every document went through the loop
FinishTrends ==
    /\ tPc = "bucketing"
    /\ tIdx > Len(corpus)
    /\ tOut' = TrendExcept(TrendBody(corpus, timePeriods))
    /\ tPc' = "done"
    /\ UNCHANGED <<engine, corpus, apiKey, query, appVars, sentVars, tIdx, clock, timePeriods>>

-----------------------------------------------------------------------------
\* no call has begun
Fresh ==
    /\ sPc = "start"
    /\ textSamples = <<>>
    /\ aiAttempted = FALSE
    /\ aiCalls = 0
    /\ kwRuns = 0
    /\ aiReply = NoReply
    /\ sOut = Pending
    /\ tPc = "start"
    /\ tIdx = 1
    /\ clock = NowHour
    /\ timePeriods = <<>>
    /\ tOut = Pending

\* no row of a request
NoRow == [query_id |-> 0]

\* no HistoricalQuery object yet
NoRecord == [status |-> "<none>", error_message |-> ""]

\* no committed row of the request
NothingStored ==
    [status |-> "<none>", error_message |-> "", reports |-> 0, analyses |-> 0]

\* the engines are called directly, not through a request
NoRequest ==
    /\ appPc = "idle"
    /\ sentimentReport = NoRow
    /\ trendAnalysis = NoRow
    /\ queryRecord = NoRecord
    /\ stored = NothingStored

Init ==
    /\ NoRequest
    /\ \/ /\ engine = "sentiment"
          /\ corpus \in SentCorpora \cup ScenarioCorpora
          /\ apiKey \in BOOLEAN
          /\ query = NoQuery
       \/ /\ engine = "trend"
          /\ corpus \in TrendCorpora \cup TopicCorpora
          /\ apiKey = FALSE
          /\ query \in Queries
    /\ Fresh

Next ==
    \/ AnalyzeSentiment
    \/ AiCallRaises
    \/ AiCallReturns
    \/ DetectTrends
    \/ BucketItem
    \/ Tick
    \/ FinishTrends

Spec == Init /\ [][Next]_vars

-----------------------------------------------------------------------------
(* analyze_sentiment alone, on corpora of every keyword profile: without  *)
(* an API key, and with one on the corpora of ties and of blank documents *)

KeywordDocs == SentDocs \cup {DocHedged, DocMixed, DocCalm}

KeywordCorpora == SeqsUpTo(KeywordDocs, MaxLen) \ {<<>>}

\* the corpora analysed with an API key
FallbackCorpora == TieCorpora \cup {<<DocBlank>>, <<DocBlank, DocPos>>}

InitKeyword ==
    /\ NoRequest
    /\ engine = "sentiment"
    /\ \/ /\ apiKey = FALSE
          /\ corpus \in KeywordCorpora \cup TieCorpora
       \/ /\ apiKey = TRUE
          /\ corpus \in FallbackCorpora
    /\ query = NoQuery
    /\ Fresh

NextKeyword ==
    \/ AnalyzeSentiment
    \/ AiCallRaises
    \/ AiCallReturns

SpecKeyword == InitKeyword /\ [][NextKeyword]_vars

-----------------------------------------------------------------------------
(* detect_trends alone, on the corpora of Spec and on corpora of several  *)
(* keywords over four hour buckets                                        *)

InitTopics ==
    /\ NoRequest
    /\ engine = "trend"
    /\ corpus \in TrendCorpora \cup TopicCorpora \cup ManyTopicCorpora
                 \cup {CrossTopicCorpus}
    /\ apiKey = FALSE
    /\ query \in Queries
    /\ Fresh

NextTopics ==
    \/ DetectTrends
    \/ BucketItem
    \/ Tick
    \/ FinishTrends

SpecTopics == InitTopics /\ [][NextTopics]_vars

-----------------------------------------------------------------------------
(* The two engines invoked side by side on the same corpus, as app.py     *)
(* hands raw_data to both; their steps interleave in any order            *)

\* a document without a usable date
DocUndated == Doc(TextB.title, TextB.content, PubBad, S(<<"reddit">>))

BothCorpora ==
    {<<>>, <<DocPos, DocNeg>>, <<DocNull, DocUndated>>, <<DocUndated, DocPos>>}

InitBoth ==
    /\ NoRequest
    /\ engine = "both"
    /\ corpus \in BothCorpora
    /\ apiKey \in BOOLEAN
    /\ query = "tesla stock"
    /\ Fresh

SpecBoth == InitBoth /\ [][Next]_vars

\* what analyze_sentiment returns when it is the only call running, given
\* the answer of the collaborator (NoReply when it is not called)
SoloSentiment(data, key, reply) ==
    IF data = <<>>
    THEN Returned(EmptySentiment)
    ELSE IF UsesAi(key, data)
    THEN LET text_samples == TextSamples(Prefix(data, AiSampleLimit))
             tried == IF reply \in RaisingReplies
                      THEN Raised(reply.kind)
                      ELSE AiProcess(reply, text_samples)
         IN  IF text_samples = <<>>
             THEN OuterExcept(KeywordRun(data), data).out
             ELSE OuterExcept(InnerExcept(tried, data), data).out
    ELSE OuterExcept(KeywordRun(data), data).out

\* the hours datetime.utcnow() may show at the n iterations of the bucketing
\* loop: from NowHour on, never falling, at most MaxTicks hours later
ClockReadings(n) ==
    {r \in [1..n -> NowHour..(NowHour + MaxTicks)] :
        \A i \in 1..n : \A j \in i..n : r[i] <= r[j]}

\* time_periods after the first i iterations under the given clock readings
RECURSIVE BucketsWith(_, _, _)
BucketsWith(data, i, readings) ==
    IF i = 0
    THEN <<>>
    ELSE BucketOf(BucketsWith(data, i - 1, readings), data, i, readings[i])

\* what detect_trends may return when it is the only call running
SoloTrendResults(data) ==
    IF data = <<>>
    THEN {Returned(EmptyTrend)}
    ELSE {TrendExcept(TrendBody(data, BucketsWith(data, Len(data), readings))) :
              readings \in ClockReadings(Len(data))}

-----------------------------------------------------------------------------
(* app.py: search_market_insights, one request *)

\* a Python value that is the empty dict {} / a list
EmptyDict == [k |-> "dict", v |-> <<>>]
PyList(items) == [k |-> "list", v |-> items]

\* d.get(key, default) on a result dict
DictGet(d, key, default) == IF key \in DOMAIN d THEN d[key] ELSE default

\* ','.join(words) : the text as its tokens, "," between two words
RECURSIVE Join(_)
Join(words) ==
    IF words = <<>> THEN <<>>
    ELSE IF Len(words) = 1 THEN <<words[1]>>
    ELSE <<words[1], ",">> \o Join(Tail(words))

IsNoComma(token) == token # ","

\* to_dict of models.py: text.split(',') if text else []
Split(text) == SelectSeq(text, IsNoComma)

\* SentimentReport(...) built from sentiment_results
SentimentRow(sentiment_results) ==
    [query_id |-> 1,
     positive_score |-> DictGet(sentiment_results, "positive", Frac(0, 1)),
     negative_score |-> DictGet(sentiment_results, "negative", Frac(0, 1)),
     neutral_score |-> DictGet(sentiment_results, "neutral", Frac(0, 1)),
     overall_sentiment |-> DictGet(sentiment_results, "overall", "neutral"),
     \* the results carry their breakdown under 'sentiment_breakdown'
     sentiment_breakdown |-> DictGet(sentiment_results, "breakdown", EmptyDict),
     sample_texts |-> DictGet(sentiment_results, "sample_texts", EmptySamples),
     confidence_score |-> DictGet(sentiment_results, "confidence", Frac(7, 10))]

\* TrendAnalysis(...) built from trend_results
TrendRow(trend_results) ==
    [query_id |-> 1,
     trend_direction |-> DictGet(trend_results, "direction", "stable"),
     trend_strength |-> DictGet(trend_results, "strength", Frac(5, 10)),
     emerging_topics |-> Join(DictGet(trend_results, "emerging_topics", <<>>)),
     declining_topics |-> Join(DictGet(trend_results, "declining_topics", <<>>)),
     related_keywords |-> Join(DictGet(trend_results, "related_keywords", <<>>)),
     confidence_score |-> DictGet(trend_results, "confidence", Frac(7, 10)),
     analysis_data |-> DictGet(trend_results, "analysis_data", EmptyDict)]

\* validation of the request (the stripped query must not be empty),
\* creation of the query record with status 'processing' and its flush; a
\* flush that raises is answered by the outer except with a rollback
AppRequest ==
    /\ engine = "app"
    /\ appPc = "received"
    /\ IF query = ""
       THEN /\ appPc' = "rejected"
            /\ UNCHANGED queryRecord
       ELSE /\ queryRecord' = [status |-> "processing", error_message |-> ""]
            /\ \E flushed \in BOOLEAN :
                   appPc' = IF flushed THEN "processing" ELSE "rolled_back"
    /\ UNCHANGED <<engine, corpus, apiKey, query, sentVars, trendVars,
                   sentimentReport, trendAnalysis, stored>>

\* both engines returned: the record is updated to 'completed' and the
\* rows are built and added to the session
AppStore ==
    /\ engine = "app"
    /\ appPc = "processing"
    /\ sPc = "done"
    /\ tPc = "done"
    /\ queryRecord' = [queryRecord EXCEPT !.status = "completed"]
    /\ sentimentReport' = SentimentRow(sOut.result)
    /\ trendAnalysis' = TrendRow(tOut.result)
    /\ appPc' = "committing"
    /\ UNCHANGED <<engine, corpus, apiKey, query, sentVars, trendVars, stored>>

\* db.session.commit() of the try block succeeds: the record and its two
\* rows are in the database
AppCommit ==
    /\ engine = "app"
    /\ appPc = "committing"
    /\ stored' = [status |-> queryRecord.status,
                  error_message |-> queryRecord.error_message,
                  reports |-> 1,
                  analyses |-> 1]
    /\ appPc' = "completed"
    /\ UNCHANGED <<engine, corpus, apiKey, query, sentVars, trendVars,
                   sentimentReport, trendAnalysis, queryRecord>>

\* db.session.commit() of the try block raises: the transaction is rolled
\* back and the handler of except Exception as processing_error marks the
\* object failed; its own commit has nothing of the request to write, or
\* raises and the outer except rolls back
AppCommitRaises ==
    /\ engine = "app"
    /\ appPc = "committing"
    /\ queryRecord' = [status |-> "failed", error_message |-> "OperationalError"]
    /\ sentimentReport' = NoRow
    /\ trendAnalysis' = NoRow
    /\ \E raises \in BOOLEAN :
           appPc' = IF raises THEN "rolled_back" ELSE "failed"
    /\ UNCHANGED <<engine, corpus, apiKey, query, sentVars, trendVars, stored>>

\* AppFails with a fault: the handler commits without marking the record
AppFailsUnmarked ==
    /\ engine = "app"
    /\ appPc = "processing"
    /\ sPc = "start"
    /\ UNCHANGED queryRecord
    /\ \E committed \in BOOLEAN :
           IF committed
           THEN /\ stored' = [status |-> queryRecord.status,
                              error_message |-> queryRecord.error_message,
                              reports |-> 0,
                              analyses |-> 0]
                /\ appPc' = "failed"
           ELSE /\ appPc' = "rolled_back"
                /\ UNCHANGED stored
    /\ UNCHANGED <<engine, corpus, apiKey, query, sentVars, trendVars,
                   sentimentReport, trendAnalysis>>

\* data_fetcher.fetch_data raised: the handler marks the record failed and
\* commits it; a commit that raises is answered by the outer except with a
\* rollback
AppFails ==
    /\ engine = "app"
    /\ appPc = "processing"
    /\ sPc = "start"
    /\ queryRecord' = [status |-> "failed", error_message |-> "TypeError"]
    /\ \E committed \in BOOLEAN :
           IF committed
           THEN /\ stored' = [status |-> queryRecord'.status,
                              error_message |-> queryRecord'.error_message,
                              reports |-> 0,
                              analyses |-> 0]
                /\ appPc' = "failed"
           ELSE /\ appPc' = "rolled_back"
                /\ UNCHANGED stored
    /\ UNCHANGED <<engine, corpus, apiKey, query, sentVars, trendVars,
                   sentimentReport, trendAnalysis>>

\* six hourly documents in which two keywords go from 1 to 3 occurrences
TwoTopicCorpus ==
    [i \in 1..6 |->
        Doc(S(<<"report">>),
            S(Repeat("lithium", IF i <= 3 THEN 1 ELSE 3)
              \o Repeat("cobalt", IF i <= 3 THEN 1 ELSE 3)),
            PubIso("naive", i - 1, 0), S(<<"news">>))]

\* what fetch_data returned
AppCorpora == BothCorpora \cup {TwoTopicCorpus}

InitApp ==
    /\ engine = "app"
    /\ corpus \in AppCorpora
    /\ apiKey \in BOOLEAN
    /\ query \in Queries
    /\ Fresh
    /\ appPc = "received"
    /\ sentimentReport = NoRow
    /\ trendAnalysis = NoRow
    /\ queryRecord = NoRecord
    /\ stored = NothingStored

NextApp ==
    \/ Next
    \/ AppRequest
    \/ AppStore
    \/ AppCommit
    \/ AppCommitRaises
    \/ AppFails

SpecApp == InitApp /\ [][NextApp]_vars

-----------------------------------------------------------------------------
(* Properties of analyze_sentiment *)

SentimentDone == engine = "sentiment" /\ sPc = "done"

\* |positive + negative + neutral - 1.0| <= 1e-6
RatiosSumToOne(r) ==
    LET sum == r.positive.n * r.negative.d * r.neutral.d
               + r.negative.n * r.positive.d * r.neutral.d
               + r.neutral.n * r.positive.d * r.negative.d
        den == r.positive.d * r.negative.d * r.neutral.d
        diff == IF sum >= den THEN sum - den ELSE den - sum
    IN  1000000 * diff <= den

\* C1: whichever strategy produced it, the result of analyze_sentiment has
\* ratios that sum to 1.0 within 1e-6, and for the empty corpus they are
\* exactly positive = 0, negative = 0, neutral = 1.
C1_RatiosSumToOne ==
    (SentimentDone /\ sOut.kind = "returned") =>
        /\ RatiosSumToOne(sOut.result)
        /\ corpus = <<>> =>
               /\ sOut.result.positive.n = 0
               /\ sOut.result.negative.n = 0
               /\ sOut.result.neutral.n = sOut.result.neutral.d

\* C2: analyze_sentiment never propagates an exception: whatever the
\* corpus, the configuration and the behaviour of the collaborator, the call
\* ends by returning a result.
C2_NeverPropagates ==
    /\ sOut.kind # "raised"
    /\ SentimentDone => sOut.kind = "returned"

\* a call of the collaborator timed out and analyze_sentiment returned a
\* result
C2_Witness ==
    /\ SentimentDone
    /\ aiReply.kind = "timeout"
    /\ sOut.kind = "returned"

\* the collaborator call raised, timed out or answered what cannot be parsed
UnusableReply == aiReply.kind \in {"api_error", "timeout", "not_json", "not_object"}

\* C3: when the model-assisted path was attempted and the call raised,
\* timed out or returned what cannot be parsed, the result is exactly the
\* keyword-path result over the entire corpus, with method keyword_based.
C3_FallbackIsWholeKeywordResult ==
    (SentimentDone /\ UnusableReply) =>
        /\ sOut = KeywordBased(corpus)
        /\ sOut.result.analysis_method = "keyword_based"

\* a failed call on a corpus longer than the 15 documents sampled, every
\* document of which is in the breakdown
C3_Witness ==
    /\ SentimentDone
    /\ UnusableReply
    /\ Len(corpus) > 15
    /\ Len(sOut.result.sentiment_breakdown) = Len(corpus)

\* C4: within one call the collaborator is invoked at most once and the
\* keyword path is executed at most once; once a call was made, failed or
\* not, analyze_sentiment is at its return and no further call follows.
C4_AtMostOneCallOneFallback ==
    /\ aiCalls <= 1
    /\ kwRuns <= 1
    /\ aiCalls = 1 => sPc = "done"
    /\ (aiCalls = 1 /\ UnusableReply) => kwRuns = 1

\* a call that failed, followed by the one keyword fallback
C4_Witness ==
    /\ SentimentDone
    /\ aiReply.kind = "api_error"
    /\ aiCalls = 1
    /\ kwRuns = 1

\* C5: a result with method ai_powered is returned only for a response that
\* satisfies the full schema; any schema violation falls back to the keyword
\* path.
C5_SchemaViolationFallsBack ==
    (SentimentDone /\ aiCalls = 1) =>
        (sOut.result.analysis_method = "ai_powered"
            => FullSchema(aiReply, Len(textSamples)))

\* C6: for a non-empty corpus the model-assisted path is entered if and only
\* if a collaborator is configured and the corpus has at most 20 documents;
\* in every other case the collaborator is never called and the keyword path
\* produces the result.
C6_AiPathIffConfiguredAndSmall ==
    (engine = "sentiment" /\ sPc # "start" /\ corpus # <<>>) =>
        /\ aiAttempted <=> (apiKey /\ Len(corpus) <= 20)
        /\ aiCalls > 0 => aiAttempted
        /\ ~(apiKey /\ Len(corpus) <= 20) =>
               /\ aiCalls = 0
               /\ sPc = "done"
               /\ sOut.kind = "returned"
               /\ sOut.result.analysis_method = "keyword_based"

\* a corpus of exactly 20 documents on which the collaborator was called
C6_Witness ==
    /\ SentimentDone
    /\ apiKey
    /\ Len(corpus) = 20
    /\ aiCalls = 1
    /\ sOut.result.analysis_method = "ai_powered"

-----------------------------------------------------------------------------
(* Properties of detect_trends *)

TrendDone == engine = "trend" /\ tPc = "done"

\* the bucketing loop has gone through every document
Bucketed == engine = "trend" /\ tPc # "start" /\ tIdx > Len(corpus)

\* the buckets of time_periods that hold the document with index i
BucketsOf(i) ==
    {p \in DOMAIN timePeriods :
        \E j \in DOMAIN timePeriods[p].items : timePeriods[p].items[j] = i}

\* published_at of the document with index i is present and parses
Parses(i) ==
    /\ HasPublishedAt(corpus[i])
    /\ corpus[i].published_at.form = "iso"

\* C7: detect_trends never propagates an exception: it returns a result for
\* every corpus, and whenever an internal step raises, the result is exactly
\* stable / 0.5 / [] / [] / confidence 0.3 with an error marker.
C7_TrendNeverPropagates ==
    /\ tOut.kind # "raised"
    /\ TrendDone =>
          /\ tOut.kind = "returned"
          /\ LET tried == TrendBody(corpus, timePeriods)
             IN  (corpus # <<>> /\ tried.kind = "raised") =>
                     /\ DOMAIN tOut.result =
                            {"direction", "strength", "emerging_topics",
                             "declining_topics", "trend_indicators",
                             "confidence", "error"}
                     /\ tOut.result.direction = "stable"
                     /\ tOut.result.strength = [n |-> 5, d |-> 10]
                     /\ tOut.result.emerging_topics = <<>>
                     /\ tOut.result.declining_topics = <<>>
                     /\ DOMAIN tOut.result.trend_indicators = {}
                     /\ tOut.result.confidence = [n |-> 3, d |-> 10]
                     /\ tOut.result.error = tried.result.error

\* a sort of naive and aware datetimes raised and the degraded result was
\* returned
C7_Witness ==
    /\ TrendDone
    /\ tOut.kind = "returned"
    /\ "error" \in DOMAIN tOut.result
    /\ tOut.result.error = "TypeError"

\* C8: documents with missing, null, empty or malformed title, content or
\* published_at never fail the whole corpus: for every non-empty corpus
\* detect_trends returns a normally computed result, without error marker
\* and not the degraded one.
C8_MalformedDocumentsTolerated ==
    (TrendDone /\ corpus # <<>>) =>
        /\ tOut.kind = "returned"
        /\ "error" \notin DOMAIN tOut.result
        /\ "analysis_period" \in DOMAIN tOut.result

\* C9: every document is placed in exactly one time bucket: that of its
\* hour-truncated published_at when it parses, a fallback bucket otherwise.
C9_EveryDocumentBucketed ==
    Bucketed =>
        \A i \in DOMAIN corpus :
            /\ Cardinality(BucketsOf(i)) = 1
            /\ Parses(i) =>
                   \A p \in BucketsOf(i) :
                       timePeriods[p].key =
                           [tz |-> corpus[i].published_at.tz,
                            hour |-> corpus[i].published_at.hour]

\* C10: within one call all documents without a parseable timestamp that
\* were bucketed are in one and the same fallback bucket, also when the wall
\* clock passes an hour boundary during the bucketing.
C10_OneFallbackBucket ==
    Bucketed =>
        \A i \in DOMAIN corpus, j \in DOMAIN corpus :
            (~Parses(i) /\ ~Parses(j) /\ BucketsOf(i) # {} /\ BucketsOf(j) # {})
                => BucketsOf(i) = BucketsOf(j)

-----------------------------------------------------------------------------
(* Properties of the empty corpus *)

\* C11: for the empty corpus analyze_sentiment returns overall = neutral,
\* positive = 0, negative = 0, neutral = 1, confidence = 0, empty
\* sample_texts for the three labels and an empty breakdown, and it does so
\* without entering the model-assisted path or calling the collaborator,
\* whether or not the collaborator is configured.
C11_EmptyCorpusSentiment ==
    (SentimentDone /\ corpus = <<>>) =>
        /\ sOut.kind = "returned"
        /\ sOut.result.overall = "neutral"
        /\ sOut.result.positive.n = 0
        /\ sOut.result.negative.n = 0
        /\ sOut.result.neutral.n = sOut.result.neutral.d
        /\ sOut.result.confidence.n = 0
        /\ \A label \in Labels : sOut.result.sample_texts[label] = <<>>
        /\ sOut.result.sentiment_breakdown = <<>>
        /\ aiCalls = 0
        /\ ~aiAttempted
        /\ kwRuns = 0

\* analyze_sentiment returned for the empty corpus with the collaborator
\* configured
C11_Witness ==
    /\ SentimentDone
    /\ corpus = <<>>
    /\ apiKey
    /\ sOut.kind = "returned"

\* C12: for the empty corpus detect_trends returns direction = stable,
\* strength = 0.5, no emerging and no declining topics, an empty
\* trend_indicators mapping and confidence = 0.0, whatever the query string.
C12_EmptyCorpusTrend ==
    (TrendDone /\ corpus = <<>>) =>
        /\ tOut.kind = "returned"
        /\ tOut.result.direction = "stable"
        /\ 2 * tOut.result.strength.n = tOut.result.strength.d
        /\ tOut.result.emerging_topics = <<>>
        /\ tOut.result.declining_topics = <<>>
        /\ DOMAIN tOut.result.trend_indicators = {}
        /\ tOut.result.confidence.n = 0
        /\ DOMAIN tOut.result =
               {"direction", "strength", "emerging_topics", "declining_topics",
                "trend_indicators", "confidence"}

\* detect_trends returned for the empty corpus and a non-empty query
C12_Witness ==
    /\ TrendDone
    /\ corpus = <<>>
    /\ query = "tesla stock"
    /\ tOut.kind = "returned"

-----------------------------------------------------------------------------
(* Properties of the trend result *)

\* the float is a multiple of 0.01
IsHundredths(f) == (100 * f.n) % f.d = 0

\* lo <= f <= hi
FracWithin(f, lo, hi) == FracLeq(lo, f) /\ FracLeq(f, hi)

\* C13 as stated: for every corpus the result of detect_trends has strength
\* in [0, 0.9] and confidence in [0, 1], and both are rounded to 2 decimals.
C13_StrengthAndConfidenceRounded ==
    (TrendDone /\ tOut.kind = "returned") =>
        /\ FracWithin(tOut.result.strength, Frac(0, 1), Frac(9, 10))
        /\ FracWithin(tOut.result.confidence, Frac(0, 1), Frac(1, 1))
        /\ IsHundredths(tOut.result.strength)
        /\ IsHundredths(tOut.result.confidence)

\* C13 amended: for every corpus the result of detect_trends has strength in
\* [0, 0.9] and confidence in [0, 1], and the confidence is rounded to 2
\* decimals (the strength is the unrounded ratio).
C13_BoundedAndConfidenceRounded ==
    (TrendDone /\ tOut.kind = "returned") =>
        /\ FracWithin(tOut.result.strength, Frac(0, 1), Frac(9, 10))
        /\ FracWithin(tOut.result.confidence, Frac(0, 1), Frac(1, 1))
        /\ IsHundredths(tOut.result.confidence)

\* detect_trends returned a computed (not degraded, not empty) result whose
\* strength was capped at 0.9 and whose confidence is above 0
C13_Witness ==
    /\ TrendDone
    /\ tOut.kind = "returned"
    /\ "data_points" \in DOMAIN tOut.result
    /\ FracEq(tOut.result.strength, Frac(9, 10))
    /\ tOut.result.confidence.n > 0

\* the direction and strength the indicator sums g (growth) and d (decline)
\* of the corpus call for: rising with min(0.9, 0.5 + (g/(g+d) - 0.5)) exactly
\* when g+d > 0 and g/(g+d) > 0.6, declining symmetrically, stable with 0.5
\* in every other case
DirectionRule(result, data) ==
    LET g == CategoryCount(data, "growth", Len(data))
        d == CategoryCount(data, "decline", Len(data))
        rising == g + d > 0 /\ 10 * g > 6 * (g + d)
        declining == g + d > 0 /\ 10 * d > 6 * (g + d)
    IN  /\ (result.direction = "rising") = rising
        /\ (result.direction = "declining") = declining
        /\ (result.direction = "stable") = (~rising /\ ~declining)
        /\ rising =>
               FracEq(result.strength, FracMin(Frac(9, 10), Frac(g, g + d)))
        /\ declining =>
               FracEq(result.strength, FracMin(Frac(9, 10), Frac(d, g + d)))
        /\ (~rising /\ ~declining) => FracEq(result.strength, Frac(5, 10))

\* every document contains "surge" and "growth" and no decline indicator
AllSurgeAndGrowth(data) ==
    /\ data # <<>>
    /\ CategoryCount(data, "decline", Len(data)) = 0
    /\ \A i \in DOMAIN data :
           /\ Occurrences(Lower(ItemText(data[i])), <<"surge">>) > 0
           /\ Occurrences(Lower(ItemText(data[i])), <<"growth">>) > 0

\* C14: with g and d the corpus-wide occurrence sums of the growth and the
\* decline indicators, detect_trends returns rising with strength
\* min(0.9, 0.5 + (g/(g+d) - 0.5)) exactly when g+d > 0 and g/(g+d) > 0.6,
\* declining with the symmetric strength exactly when g+d > 0 and
\* d/(g+d) > 0.6, and stable with strength 0.5 otherwise; a corpus whose
\* every document contains "surge" and "growth" and no decline word yields
\* rising with strength > 0.5.
C14_DirectionFromIndicatorRatio ==
    (TrendDone /\ tOut.kind = "returned") =>
        /\ DirectionRule(tOut.result, corpus)
        /\ AllSurgeAndGrowth(corpus) =>
               /\ tOut.result.direction = "rising"
               /\ ~FracLeq(tOut.result.strength, Frac(5, 10))

\* the rule of C14 on the results that carry no error marker
DirectionRuleUnlessDegraded ==
    (TrendDone /\ tOut.kind = "returned"
        /\ "error" \notin DOMAIN tOut.result) =>
        /\ DirectionRule(tOut.result, corpus)
        /\ AllSurgeAndGrowth(corpus) =>
               /\ tOut.result.direction = "rising"
               /\ ~FracLeq(tOut.result.strength, Frac(5, 10))

-----------------------------------------------------------------------------
(* Properties of the topic detection *)

\* the keywords of the corpus
KeywordsOf(data) ==
    {w \in UNION {{t[j] : j \in DOMAIN t} :
                     t \in {Tokenize(Lower(ItemText(data[i]))) : i \in DOMAIN data}} :
        IsKeywordWord(w)}

\* how often the keyword stands in the documents of the bucket
CountInBucket(keyword, bucket) ==
    LET words == Tokenize(Lower(AllText(corpus, bucket.items)))
    IN  Cardinality({j \in DOMAIN words : words[j] = keyword})

\* the timeline points of the keyword: the buckets it stands in
PointsOf(keyword) ==
    {p \in DOMAIN timePeriods : CountInBucket(keyword, timePeriods[p]) > 0}

\* bucket p is earlier than bucket q (a naive time is read as UTC, and of
\* two buckets of the same hour the aware one comes first)
Earlier(p, q) ==
    LET a == timePeriods[p].key
        b == timePeriods[q].key
    IN  \/ a.hour < b.hour
        \/ a.hour = b.hour /\ a.tz = "aware" /\ b.tz = "naive"

RECURSIVE SumOfPoints(_, _)
SumOfPoints(keyword, points) ==
    IF points = {}
    THEN 0
    ELSE LET p == CHOOSE q \in points : TRUE
         IN  CountInBucket(keyword, timePeriods[p])
             + SumOfPoints(keyword, points \ {p})

\* the sum of the counts of the first 3 points of the time-sorted timeline
EarlierSum(keyword) ==
    LET points == PointsOf(keyword)
    IN  SumOfPoints(keyword,
            {p \in points :
                Cardinality({q \in points : Earlier(q, p)}) < 3})

\* the sum of the counts of the last 3 points of the time-sorted timeline
RecentSum(keyword) ==
    LET points == PointsOf(keyword)
    IN  SumOfPoints(keyword,
            {p \in points :
                Cardinality({q \in points : Earlier(p, q)}) < 3})

\* the number of points either mean is taken over
WindowOf(keyword) == Min(3, Cardinality(PointsOf(keyword)))

InSeq(x, seq) == \E j \in DOMAIN seq : seq[j] = x

\* recent > 1.5 * earlier and recent >= 2, on the means
EmergingRule(keyword) ==
    /\ 2 * RecentSum(keyword) > 3 * EarlierSum(keyword)
    /\ RecentSum(keyword) >= 2 * WindowOf(keyword)

\* earlier > 1.5 * recent and earlier >= 3, on the means
DecliningRule(keyword) ==
    /\ 2 * EarlierSum(keyword) > 3 * RecentSum(keyword)
    /\ EarlierSum(keyword) >= 3 * WindowOf(keyword)

\* the keyword has the given counts in the first three and in the last
\* three of six or more buckets
HasCounts(keyword, early, late) ==
    /\ Cardinality(PointsOf(keyword)) >= 6
    /\ \A p \in PointsOf(keyword) :
           /\ Cardinality({q \in PointsOf(keyword) : Earlier(q, p)}) < 3
                  => CountInBucket(keyword, timePeriods[p]) = early
           /\ Cardinality({q \in PointsOf(keyword) : Earlier(p, q)}) < 3
                  => CountInBucket(keyword, timePeriods[p]) = late

\* C15: a keyword with at least 2 timeline points is in emerging_topics of
\* the result exactly when, on its time-sorted timeline, the mean of the
\* last 3 points exceeds 1.5 times the mean of the first 3 points and is at
\* least 2; a keyword with earlier counts [1,1,1] and recent counts [3,3,3]
\* is in emerging_topics.
C15_EmergingExactlyWhenRule ==
    (TrendDone /\ tOut.kind = "returned") =>
        \A keyword \in KeywordsOf(corpus) :
            /\ Cardinality(PointsOf(keyword)) >= 2 =>
                   (InSeq(keyword, tOut.result.emerging_topics)
                       = EmergingRule(keyword))
            /\ HasCounts(keyword, 1, 3) =>
                   InSeq(keyword, tOut.result.emerging_topics)

\* the rule of C15 on the results that carry no error marker
EmergingRuleUnlessDegraded ==
    (TrendDone /\ tOut.kind = "returned"
        /\ "error" \notin DOMAIN tOut.result) =>
        \A keyword \in KeywordsOf(corpus) :
            /\ Cardinality(PointsOf(keyword)) >= 2 =>
                   (InSeq(keyword, tOut.result.emerging_topics)
                       = EmergingRule(keyword))
            /\ HasCounts(keyword, 1, 3) =>
                   InSeq(keyword, tOut.result.emerging_topics)

\* a keyword with counts [1,1,1] and then [3,3,3] was reported as emerging
EmergingExampleReported ==
    /\ TrendDone
    /\ tOut.kind = "returned"
    /\ HasCounts("lithium", 1, 3)
    /\ InSeq("lithium", tOut.result.emerging_topics)

\* C16: a keyword with at least 2 timeline points is in declining_topics of
\* the result exactly when, on its time-sorted timeline, the mean of the
\* first 3 points exceeds 1.5 times the mean of the last 3 points and is at
\* least 3; a keyword with earlier counts [4,4,4] and recent counts [1,1,1]
\* is in declining_topics.
C16_DecliningExactlyWhenRule ==
    (TrendDone /\ tOut.kind = "returned") =>
        \A keyword \in KeywordsOf(corpus) :
            /\ Cardinality(PointsOf(keyword)) >= 2 =>
                   (InSeq(keyword, tOut.result.declining_topics)
                       = DecliningRule(keyword))
            /\ HasCounts(keyword, 4, 1) =>
                   InSeq(keyword, tOut.result.declining_topics)

\* the rule of C16 on the results that carry no error marker
DecliningRuleUnlessDegraded ==
    (TrendDone /\ tOut.kind = "returned"
        /\ "error" \notin DOMAIN tOut.result) =>
        \A keyword \in KeywordsOf(corpus) :
            /\ Cardinality(PointsOf(keyword)) >= 2 =>
                   (InSeq(keyword, tOut.result.declining_topics)
                       = DecliningRule(keyword))
            /\ HasCounts(keyword, 4, 1) =>
                   InSeq(keyword, tOut.result.declining_topics)

\* a keyword with counts [4,4,4] and then [1,1,1] was reported as declining
DecliningExampleReported ==
    /\ TrendDone
    /\ tOut.kind = "returned"
    /\ HasCounts("lithium", 4, 1)
    /\ InSeq("lithium", tOut.result.declining_topics)

-----------------------------------------------------------------------------
(* Properties of the keyword path *)

\* analyze_sentiment returned a result of the keyword path
KeywordResult ==
    /\ SentimentDone
    /\ sOut.kind = "returned"
    /\ sOut.result.analysis_method = "keyword_based"

\* the number of documents with each label among the first i documents,
\* the documents with a blank text left out
RECURSIVE LabelCountsUpTo(_)
LabelCountsUpTo(i) ==
    IF i = 0
    THEN [positive |-> 0, negative |-> 0, neutral |-> 0]
    ELSE LET before == LabelCountsUpTo(i - 1)
             text == Lower(ItemText(corpus[i]))
         IN  IF IsBlank(text)
             THEN before
             ELSE [before EXCEPT ![KwClassify(text).sentiment] = @ + 1]

LabelCounts == LabelCountsUpTo(Len(corpus))

\* the number of classified documents
ClassifiedCount(counts) == counts.positive + counts.negative + counts.neutral

\* the label whose count is strictly greater than both others, neutral when
\* there is none
StrictPlurality(counts) ==
    IF counts.positive > counts.negative /\ counts.positive > counts.neutral
    THEN "positive"
    ELSE IF counts.negative > counts.positive /\ counts.negative > counts.neutral
    THEN "negative"
    ELSE "neutral"

\* ratios = label count / classified documents, overall = strict plurality,
\* confidence = min(0.9, 0.5 + 0.4 * max_ratio)
AggregationRule(result, counts) ==
    LET total == ClassifiedCount(counts)
        most == Max(counts.positive, Max(counts.negative, counts.neutral))
    IN  /\ \A label \in Labels :
               result[label].n * total = counts[label] * result[label].d
        /\ result.overall = StrictPlurality(counts)
        /\ result.confidence.n * 10 * total
               = result.confidence.d * Min(9 * total, 5 * total + 4 * most)

\* the number of documents with at least 2 keywords of the one list and
\* none of the other
DocsWith(two_of, none_of) ==
    Cardinality({i \in DOMAIN corpus :
        /\ KeywordCount(two_of, Lower(ItemText(corpus[i]))) >= 2
        /\ KeywordCount(none_of, Lower(ItemText(corpus[i]))) = 0})

\* positive with confidence 0.74
PositiveAt74(result) ==
    /\ result.overall = "positive"
    /\ FracEq(result.confidence, Frac(74, 100))

\* C18 as stated: on the keyword path each ratio is the number of documents
\* with that label divided by the number of classified documents, the
\* overall label is the one whose ratio is strictly greater than both others
\* (neutral when there is none), the confidence is
\* min(0.9, 0.5 + 0.4 * max_ratio); and any 5-document corpus with 3
\* documents of at least 2 positive and no negative keywords and 2 documents
\* of at least 2 negative and no positive keywords yields positive with
\* confidence 0.74.
C18_AggregationAndScenario ==
    KeywordResult =>
        LET counts == LabelCounts
        IN  ClassifiedCount(counts) > 0 =>
                /\ AggregationRule(sOut.result, counts)
                /\ (/\ Len(corpus) = 5
                    /\ DocsWith(positive_keywords, negative_keywords) = 3
                    /\ DocsWith(negative_keywords, positive_keywords) = 2)
                       => PositiveAt74(sOut.result)

\* C18 amended: the aggregation rule as stated; and any 5-document corpus
\* with 3 documents labelled positive and 2 labelled negative yields
\* positive with confidence 0.74 (a document with 2 positive and no negative
\* keywords is labelled neutral when it has 2 or more neutral keywords).
C18_AggregationAndLabelledScenario ==
    KeywordResult =>
        LET counts == LabelCounts
        IN  ClassifiedCount(counts) > 0 =>
                /\ AggregationRule(sOut.result, counts)
                /\ (/\ Len(corpus) = 5
                    /\ counts.positive = 3
                    /\ counts.negative = 2)
                       => PositiveAt74(sOut.result)

\* the keyword path returned positive with confidence 0.74 for a
\* 5-document corpus with 3 positive and 2 negative documents
C18_Witness ==
    /\ KeywordResult
    /\ Len(corpus) = 5
    /\ LabelCounts.positive = 3
    /\ LabelCounts.negative = 2
    /\ PositiveAt74(sOut.result)

-----------------------------------------------------------------------------
(* Properties of concurrent invocations *)

-----------------------------------------------------------------------------
(* Properties of the stored rows *)

\* the ratios, the label, the confidence and the sample texts of the stored
\* report are those of the result of analyze_sentiment
ReportEqualsResult(report, result) ==
    /\ report.positive_score = result.positive
    /\ report.negative_score = result.negative
    /\ report.neutral_score = result.neutral
    /\ report.overall_sentiment = result.overall
    /\ report.confidence_score = result.confidence
    /\ report.sample_texts = result.sample_texts

\* the direction, the strength, the topic lists (read back as to_dict reads
\* them) and the confidence of the stored analysis are those of the result
\* of detect_trends
AnalysisEqualsResult(analysis, result) ==
    /\ analysis.trend_direction = result.direction
    /\ analysis.trend_strength = result.strength
    /\ Split(analysis.emerging_topics) = result.emerging_topics
    /\ Split(analysis.declining_topics) = result.declining_topics
    /\ analysis.confidence_score = result.confidence

\* C20: after a successful search request the stored sentiment report's
\* ratios, overall label, confidence, sample_texts and per-document
\* breakdown equal the fields of the result analyze_sentiment returned, and
\* the stored trend analysis's direction, strength, topic lists and
\* confidence equal those of the result detect_trends returned.
C20_StoredVerbatim ==
    appPc = "completed" =>
        /\ ReportEqualsResult(sentimentReport, sOut.result)
        /\ sentimentReport.sentiment_breakdown
               = PyList(sOut.result.sentiment_breakdown)
        /\ AnalysisEqualsResult(trendAnalysis, tOut.result)

\* the fields of C20 other than the breakdown are stored as returned
StoredVerbatimButBreakdown ==
    appPc = "completed" =>
        /\ ReportEqualsResult(sentimentReport, sOut.result)
        /\ AnalysisEqualsResult(trendAnalysis, tOut.result)

\* a request completed whose trend result names two emerging topics and
\* whose sentiment result has a breakdown entry
StoredTwoTopics ==
    /\ appPc = "completed"
    /\ Len(tOut.result.emerging_topics) = 2
    /\ Len(sOut.result.sentiment_breakdown) > 0

-----------------------------------------------------------------------------
(* Properties of the per-document labelling *)

\* the label the keyword counts of a text call for: the list whose count is
\* strictly greater than both others, neutral in every other case
LabelByCounts(text) ==
    LET p == KeywordCount(positive_keywords, text)
        n == KeywordCount(negative_keywords, text)
        u == KeywordCount(neutral_keywords, text)
    IN  IF p > n /\ p > u THEN "positive"
        ELSE IF n > p /\ n > u THEN "negative"
        ELSE "neutral"

\* C21: on the keyword path a document is labelled positive only when its
\* positive-keyword count is strictly greater than both its negative and
\* its neutral count, negative only when its negative count is strictly
\* greater than both others, and neutral in every remaining case, every tie
\* for the maximum and the all-zero case included.
C21_LabelByStrictMaximum ==
    KeywordResult =>
        \A j \in DOMAIN sOut.result.sentiment_breakdown :
            LET entry == sOut.result.sentiment_breakdown[j]
            IN  entry.sentiment = LabelByCounts(entry.text_preview.text)

\* the keyword path labelled a document with one positive and one negative
\* keyword as neutral
C21_Witness ==
    /\ KeywordResult
    /\ \E j \in DOMAIN sOut.result.sentiment_breakdown :
           LET entry == sOut.result.sentiment_breakdown[j]
           IN  /\ entry.positive_keywords = 1
               /\ entry.negative_keywords = 1
               /\ entry.sentiment = "neutral"

-----------------------------------------------------------------------------
(* Properties of the breakdown *)

\* analyze_sentiment returned a result for a non-empty corpus
NonEmptyResult ==
    /\ SentimentDone
    /\ sOut.kind = "returned"
    /\ corpus # <<>>

\* the texts of the documents that are not blank, in corpus order
RECURSIVE NonBlankTexts(_)
NonBlankTexts(data) ==
    IF data = <<>>
    THEN <<>>
    ELSE LET text == Lower(ItemText(data[Len(data)]))
             before == NonBlankTexts(SubSeq(data, 1, Len(data) - 1))
         IN  IF IsBlank(text) THEN before ELSE Append(before, text)

\* C22: for every non-empty corpus and on either strategy, the breakdown of
\* the result has exactly one entry per document of the corpus, and the
\* i-th entry describes the i-th document in processing order.
C22_BreakdownPerDocument ==
    NonEmptyResult =>
        LET breakdown == sOut.result.sentiment_breakdown
        IN  /\ Len(breakdown) = Len(corpus)
            /\ \A i \in DOMAIN breakdown :
                   Lower(breakdown[i].text_preview.text)
                       = Lower(ItemText(corpus[i]))

\* what the breakdown does satisfy: its entries describe, in order, the
\* first documents that are not blank, all of them on the keyword path
BreakdownPerNonBlankDocument ==
    NonEmptyResult =>
        LET breakdown == sOut.result.sentiment_breakdown
            texts == NonBlankTexts(corpus)
        IN  /\ Len(breakdown) <= Len(texts)
            /\ sOut.result.analysis_method = "keyword_based"
                   => Len(breakdown) = Len(texts)
            /\ \A i \in DOMAIN breakdown :
                   Lower(breakdown[i].text_preview.text) = texts[i]

\* the keyword path returned a breakdown shorter than a corpus that has a
\* blank document
BreakdownSkipsBlank ==
    /\ KeywordResult
    /\ \E i \in DOMAIN corpus : IsBlank(Lower(ItemText(corpus[i])))
    /\ Len(sOut.result.sentiment_breakdown) < Len(corpus)
    /\ sOut.result.sentiment_breakdown # <<>>

\* the model-assisted path returned a breakdown shorter than a corpus
\* without a blank document
BreakdownShortOfReply ==
    /\ NonEmptyResult
    /\ sOut.result.analysis_method = "ai_powered"
    /\ \A i \in DOMAIN corpus : ~IsBlank(Lower(ItemText(corpus[i])))
    /\ Len(sOut.result.sentiment_breakdown) < Len(corpus)

-----------------------------------------------------------------------------
(* Properties of the topic lists *)

\* the first bucket, in the order of the buckets, the keyword stands in
FirstBucket(keyword) ==
    CHOOSE p \in PointsOf(keyword) : \A q \in PointsOf(keyword) : p <= q

\* the first place of the keyword in the text of the bucket
FirstPlace(keyword, bucket) ==
    LET words == Tokenize(Lower(AllText(corpus, bucket.items)))
    IN  CHOOSE j \in DOMAIN words :
            /\ words[j] = keyword
            /\ \A h \in 1..(j - 1) : words[h] # keyword

\* keyword a was inserted into the timeline map before keyword b: it stands
\* in an earlier bucket of the bucket order, or both are first met in the
\* same bucket and a is the more frequent there, or as frequent and first
DiscoveredBefore(a, b) ==
    LET p == FirstBucket(a)
        q == FirstBucket(b)
    IN  \/ p < q
        \/ /\ p = q
           /\ \/ CountInBucket(a, timePeriods[p]) > CountInBucket(b, timePeriods[p])
              \/ /\ CountInBucket(a, timePeriods[p]) = CountInBucket(b, timePeriods[p])
                 /\ FirstPlace(a, timePeriods[p]) < FirstPlace(b, timePeriods[p])

\* the keywords that qualify as emerging, and as declining
QualifyEmerging ==
    {k \in KeywordsOf(corpus) :
        Cardinality(PointsOf(k)) >= 2 /\ EmergingRule(k)}
QualifyDeclining ==
    {k \in KeywordsOf(corpus) :
        Cardinality(PointsOf(k)) >= 2 /\ DecliningRule(k)}

\* the list has at most 10 keywords and, when more than 10 qualify, is the
\* first 10 of the qualifying keywords in discovery order
CappedInDiscoveryOrder(list, qualify) ==
    /\ Len(list) <= 10
    /\ Cardinality(qualify) > 10 =>
           /\ Len(list) = 10
           /\ \A i \in DOMAIN list :
                  /\ list[i] \in qualify
                  /\ Cardinality({k \in qualify :
                                     DiscoveredBefore(k, list[i])}) = i - 1

\* C23: for every corpus, emerging_topics and declining_topics each contain
\* at most 10 keywords; when more than 10 keywords qualify, the returned
\* list is the first 10 qualifying keywords in discovery order, the order in
\* which keywords were first inserted into the timeline map.
C23_TopicsCappedInDiscoveryOrder ==
    (TrendDone /\ tOut.kind = "returned") =>
        /\ CappedInDiscoveryOrder(tOut.result.emerging_topics, QualifyEmerging)
        /\ CappedInDiscoveryOrder(tOut.result.declining_topics, QualifyDeclining)

\* the rule of C23 on the results that carry no error marker
TopicsCappedUnlessDegraded ==
    (TrendDone /\ tOut.kind = "returned"
        /\ "error" \notin DOMAIN tOut.result) =>
        /\ CappedInDiscoveryOrder(tOut.result.emerging_topics, QualifyEmerging)
        /\ CappedInDiscoveryOrder(tOut.result.declining_topics, QualifyDeclining)

\* eleven keywords qualified as emerging and ten were reported, the most
\* frequent keyword of the first bucket first
TopicsCappedReported ==
    /\ TrendDone
    /\ tOut.kind = "returned"
    /\ Cardinality(QualifyEmerging) = 11
    /\ Len(tOut.result.emerging_topics) = 10
    /\ tOut.result.emerging_topics[1] = "barley"
    /\ ~InSeq("cotton", tOut.result.emerging_topics)

\* eleven keywords qualified as declining and ten were reported
DecliningCappedReported ==
    /\ TrendDone
    /\ tOut.kind = "returned"
    /\ Cardinality(QualifyDeclining) = 11
    /\ Len(tOut.result.declining_topics) = 10

-----------------------------------------------------------------------------
(* Properties of the indicator counts *)

\* some indicator of the category stands in the text of some document
CategoryOccurs(data, category) ==
    \E i \in DOMAIN data, indicator \in trend_indicators[category] :
        Occurrences(Lower(ItemText(data[i])), indicator) > 0

\* the map has the six categories as keys, each with a natural number that
\* is zero when no word of the category occurs in the corpus
SixCategoriesCounted(indicators, data) ==
    /\ DOMAIN indicators =
           {"growth", "decline", "volatility", "innovation", "regulation",
            "competition"}
    /\ \A category \in DOMAIN indicators :
           /\ indicators[category] \in Nat
           /\ ~CategoryOccurs(data, category) => indicators[category] = 0

\* C24: in every result returned by detect_trends the trend_indicators map
\* has all six categories (growth, decline, volatility, innovation,
\* regulation, competition) as keys, each with a non-negative integer count
\* that is zero when no word of that category occurs in the corpus.
C24_AllCategoriesPresent ==
    (TrendDone /\ tOut.kind = "returned") =>
        SixCategoriesCounted(tOut.result.trend_indicators, corpus)

\* the rule of C24 on the results for a non-empty corpus that carry no
\* error marker
AllCategoriesUnlessDegraded ==
    (TrendDone /\ tOut.kind = "returned" /\ corpus # <<>>
        /\ "error" \notin DOMAIN tOut.result) =>
        SixCategoriesCounted(tOut.result.trend_indicators, corpus)

\* a result with the six categories, growth counted and regulation zero
AllCategoriesReported ==
    /\ TrendDone
    /\ tOut.kind = "returned"
    /\ corpus # <<>>
    /\ SixCategoriesCounted(tOut.result.trend_indicators, corpus)
    /\ tOut.result.trend_indicators["growth"] > 0
    /\ tOut.result.trend_indicators["regulation"] = 0

\* a result for a non-empty corpus with an empty trend_indicators map
IndicatorsDiscarded ==
    /\ TrendDone
    /\ tOut.kind = "returned"
    /\ corpus # <<>>
    /\ \E category \in Categories : CategoryOccurs(corpus, category)
    /\ DOMAIN tOut.result.trend_indicators = {}

-----------------------------------------------------------------------------
(* Properties of the trend confidence *)

\* the documents whose published_at parses
DatedDocs(data) ==
    {i \in DOMAIN data :
        /\ HasPublishedAt(data[i])
        /\ FromIsoFormat(data[i].published_at).kind = "returned"}

\* the hours between the earliest and the latest parsed timestamp, 1 hour
\* for fewer than 2 timestamps
SpanHours(data) ==
    LET dated == DatedDocs(data)
        at == [i \in dated |-> Minutes(FromIsoFormat(data[i].published_at).result)]
        first == CHOOSE i \in dated : \A j \in dated : at[i] <= at[j]
        last == CHOOSE i \in dated : \A j \in dated : at[i] >= at[j]
    IN  IF Cardinality(dated) < 2
        THEN Frac(1, 1)
        ELSE Frac(at[last] - at[first], 60)

\* the keywords with at least 3 timeline points
LongKeywords == {k \in KeywordsOf(corpus) : Cardinality(PointsOf(k)) >= 3}

\* the time-ordered counts of the keyword are non-decreasing,
\* non-increasing, or differ by at most 1 between maximum and minimum
ConsistentRule(keyword) ==
    LET points == PointsOf(keyword)
        count == [p \in points |-> CountInBucket(keyword, timePeriods[p])]
    IN  \/ \A p \in points, q \in points : Earlier(p, q) => count[p] <= count[q]
        \/ \A p \in points, q \in points : Earlier(p, q) => count[p] >= count[q]
        \/ \A p \in points, q \in points : count[p] - count[q] <= 1

\* the documents with at least 3 of title, content, published_at and
\* source non-empty
CompleteDocs(data) ==
    {i \in DOMAIN data :
        Cardinality({f \in {"title", "content", "source"} : HasText(data[i][f])})
            + (IF HasDate(data[i].published_at) THEN 1 ELSE 0) >= 3}

\* 0.3*min(1, doc_count/50) + 0.2*min(1, span_hours/168) + 0.3*consistency
\* + 0.2*completeness
WeightedConfidence ==
    LET long == LongKeywords
        volume == FracMin(One, Frac(Len(corpus), 50))
        span == FracMin(One, FracMul(SpanHours(corpus), Frac(1, 168)))
        consistency ==
            Frac(Cardinality({k \in long : ConsistentRule(k)}), Cardinality(long))
        completeness == Frac(Cardinality(CompleteDocs(corpus)), Len(corpus))
    IN  FracAdd(FracAdd(FracMul(Frac(3, 10), volume),
                        FracMul(Frac(2, 10), span)),
                FracAdd(FracMul(Frac(3, 10), consistency),
                        FracMul(Frac(2, 10), completeness)))

\* C25: for a non-empty corpus the trend confidence equals
\* 0.3*min(1, doc_count/50) + 0.2*min(1, span_hours/168) + 0.3*consistency
\* + 0.2*completeness, rounded to 2 decimals, where consistency is the
\* fraction of keywords with at least 3 timeline points whose time-ordered
\* counts are non-decreasing, non-increasing, or differ by at most 1 between
\* maximum and minimum, and completeness is the fraction of documents having
\* at least 3 of title, content, published_at and source non-empty. The
\* fraction is defined when some keyword has at least 3 timeline points.
C25_ConfidenceIsWeightedSum ==
    (TrendDone /\ tOut.kind = "returned" /\ corpus # <<>>
        /\ LongKeywords # {}) =>
        FracEq(tOut.result.confidence, Round2(WeightedConfidence))

\* the rule of C25 on the results that carry no error marker
WeightedSumUnlessDegraded ==
    (TrendDone /\ tOut.kind = "returned" /\ corpus # <<>>
        /\ LongKeywords # {}
        /\ "error" \notin DOMAIN tOut.result) =>
        FracEq(tOut.result.confidence, Round2(WeightedConfidence))

\* a result without error marker for a corpus in which some keyword with
\* at least 3 timeline points is consistent and some is not
WeightedSumReported ==
    /\ TrendDone
    /\ tOut.kind = "returned"
    /\ "error" \notin DOMAIN tOut.result
    /\ \E k \in LongKeywords : ConsistentRule(k)
    /\ \E k \in LongKeywords : ~ConsistentRule(k)

-----------------------------------------------------------------------------
(* Properties of the keyword timeline *)

\* the keyword timeline detect_trends built from the buckets
BuiltTimeline == KeywordsTimeline(corpus, timePeriods, Len(timePeriods))

\* detect_trends has left the bucketing loop of a non-empty corpus
TimelineBuilt == TrendDone /\ corpus # <<>>

\* the entries of the map for the keyword and the bucket
EntriesAt(timelines, keyword, bucket) ==
    {<<j, e>> \in UNION {{<<j, e>> : e \in DOMAIN timelines[j].timeline} :
                            j \in DOMAIN timelines} :
        /\ timelines[j].keyword = keyword
        /\ timelines[j].timeline[e].time = bucket.key}

\* a timeline as the emerging/declining test reads it
AsRead(timeline) == SortByTime(timeline)

\* C26: the keyword timeline built by detect_trends has, for every keyword
\* and every bucket, at most one (bucket_time, frequency) entry; an entry
\* exists exactly when the keyword is among that bucket's kept keywords
\* (frequency >= 1, never a zero entry), and at the moment the
\* emerging/declining test reads a timeline its entries are in ascending
\* bucket-time order.
C26_TimelineEntriesAndOrder ==
    TimelineBuilt =>
        LET timelines == BuiltTimeline
        IN  /\ \A j \in DOMAIN timelines :
                   timelines[j].keyword \in KeywordsOf(corpus)
            /\ \A keyword \in KeywordsOf(corpus), p \in DOMAIN timePeriods :
                   LET entries == EntriesAt(timelines, keyword, timePeriods[p])
                       count == CountInBucket(keyword, timePeriods[p])
                   IN  /\ Cardinality(entries) <= 1
                       /\ (entries # {}) = (count >= 1)
                       /\ \A x \in entries :
                              timelines[x[1]].timeline[x[2]].count = count
            /\ \A j \in DOMAIN timelines :
                   LET timeline == timelines[j].timeline
                       read == AsRead(timeline)
                   IN  (Len(timeline) >= 2 /\ ~MixedZones(TimesOf(timeline))) =>
                           /\ Len(read) = Len(timeline)
                           /\ {read[e] : e \in DOMAIN read}
                                  = {timeline[e] : e \in DOMAIN timeline}
                           /\ \A a \in DOMAIN read, b \in DOMAIN read :
                                  a < b => read[a].time.hour < read[b].time.hour

\* a timeline of four or more entries was built newest bucket first and is
\* read by the test
C26_Witness ==
    /\ TimelineBuilt
    /\ \E j \in DOMAIN BuiltTimeline :
           LET timeline == BuiltTimeline[j].timeline
           IN  /\ Len(timeline) >= 4
               /\ ~MixedZones(TimesOf(timeline))
               /\ timeline[1].time.hour > timeline[2].time.hour
               /\ timeline[1].count # timeline[Len(timeline)].count

-----------------------------------------------------------------------------
(* Properties of short timelines *)

\* C27: a keyword whose timeline has 3 or fewer points is never reported in
\* emerging_topics nor in declining_topics, whatever its frequencies; only
\* keywords present in at least 4 distinct hour buckets can be flagged.
C27_ShortTimelineNeverFlagged ==
    (TrendDone /\ tOut.kind = "returned") =>
        /\ \A keyword \in KeywordsOf(corpus) :
               Cardinality(PointsOf(keyword)) <= 3 =>
                   /\ ~InSeq(keyword, tOut.result.emerging_topics)
                   /\ ~InSeq(keyword, tOut.result.declining_topics)
        /\ \A j \in DOMAIN tOut.result.emerging_topics :
               Cardinality(PointsOf(tOut.result.emerging_topics[j])) >= 4
        /\ \A j \in DOMAIN tOut.result.declining_topics :
               Cardinality(PointsOf(tOut.result.declining_topics[j])) >= 4

\* a keyword with 3 points, 1 occurrence in the earliest and 4 in the
\* latest bucket, is in neither list of a result without error marker
C27_Witness ==
    /\ TrendDone
    /\ tOut.kind = "returned"
    /\ "error" \notin DOMAIN tOut.result
    /\ Cardinality(PointsOf("lithium")) = 3
    /\ \E p \in PointsOf("lithium"), q \in PointsOf("lithium") :
           /\ Earlier(p, q)
           /\ CountInBucket("lithium", timePeriods[p]) = 1
           /\ CountInBucket("lithium", timePeriods[q]) = 4
    /\ ~InSeq("lithium", tOut.result.emerging_topics)
    /\ ~InSeq("lithium", tOut.result.declining_topics)

-----------------------------------------------------------------------------
(* Properties of the two topic lists together *)

\* C28: for every corpus, emerging_topics and declining_topics of one result
\* are disjoint: no keyword is reported as both emerging and declining in
\* the same detect_trends call.
C28_TopicListsDisjoint ==
    (TrendDone /\ tOut.kind = "returned") =>
        \A a \in DOMAIN tOut.result.emerging_topics,
           b \in DOMAIN tOut.result.declining_topics :
            tOut.result.emerging_topics[a] # tOut.result.declining_topics[b]

\* one call reported an emerging and a declining keyword
C28_Witness ==
    /\ TrendDone
    /\ tOut.kind = "returned"
    /\ tOut.result.emerging_topics = <<"lithium">>
    /\ tOut.result.declining_topics = <<"cobalt">>

-----------------------------------------------------------------------------
(* Properties of blank documents on the keyword path *)

\* the documents whose concatenated title and content have no word
BlankDocs == {i \in DOMAIN corpus : ItemText(corpus[i]) = <<>>}

\* the documents that are not blank and call for the label
DocsLabelled(label) ==
    {i \in DOMAIN corpus \ BlankDocs :
        LabelByCounts(Lower(ItemText(corpus[i]))) = label}

\* C29: on the keyword path, documents whose concatenated title and content
\* are blank are skipped and counted in no ratio; for a non-empty corpus in
\* which every document is blank the result is overall=neutral, positive=0,
\* negative=0, neutral=1 with confidence 0.5 and an empty breakdown, and for
\* every corpus with at least one non-blank document the overall confidence
\* lies between 0.5+0.4/3 and 0.9.
C29_BlankDocumentsSkipped ==
    KeywordResult =>
        LET result == sOut.result
            counted == Cardinality(DOMAIN corpus \ BlankDocs)
        IN  /\ Len(result.sentiment_breakdown) = counted
            /\ counted > 0 =>
                   /\ \A label \in Labels :
                          result[label].n * counted
                              = Cardinality(DocsLabelled(label)) * result[label].d
                   /\ FracWithin(result.confidence, Frac(19, 30), Frac(9, 10))
            /\ counted = 0 =>
                   /\ result.overall = "neutral"
                   /\ result.positive.n = 0
                   /\ result.negative.n = 0
                   /\ result.neutral.n = result.neutral.d
                   /\ 2 * result.confidence.n = result.confidence.d
                   /\ result.sentiment_breakdown = <<>>

\* the keyword path answered for a corpus of blank documents only
C29_Witness ==
    /\ KeywordResult
    /\ corpus # <<>>
    /\ BlankDocs = DOMAIN corpus
    /\ 2 * sOut.result.confidence.n = sOut.result.confidence.d
    /\ sOut.result.sentiment_breakdown = <<>>

\* the keyword path skipped a blank document of a corpus with another
\* document, and the confidence is at a bound
BlankSkippedAmongOthers ==
    /\ KeywordResult
    /\ BlankDocs # {}
    /\ BlankDocs # DOMAIN corpus
    /\ FracEq(sOut.result.confidence, Frac(9, 10))
LowestConfidenceReached ==
    /\ KeywordResult
    /\ FracEq(sOut.result.confidence, Frac(19, 30))

-----------------------------------------------------------------------------
(* Properties of the query record *)

\* search_market_insights has returned for a request that passed validation
HandlerReturned == appPc \in {"completed", "failed", "rolled_back"}

\* the record is committed as completed with exactly one sentiment report
\* and one trend analysis for its id
CommittedCompleted ==
    /\ stored.status = "completed"
    /\ stored.reports = 1
    /\ stored.analyses = 1

\* the record is committed as failed with an error message
CommittedFailed ==
    /\ stored.status = "failed"
    /\ stored.error_message # ""

\* a step in which a request passes validation creates the record with
\* status 'processing'
CreatesProcessingRecord ==
    (appPc = "received" /\ appPc' \notin {"received", "rejected"}) =>
        (queryRecord = NoRecord /\ queryRecord'.status = "processing")

\* a committed 'completed' or 'failed' status is kept
CommittedStatusKept ==
    stored.status \in {"completed", "failed"} => stored'.status = stored.status

CompletedCommitted ==
    /\ appPc = "completed"
    /\ CommittedCompleted
RolledBackAfterCommitRaised ==
    /\ appPc = "rolled_back"
    /\ sPc = "done"
    /\ queryRecord.status = "failed"
    /\ stored = NothingStored

====
